---- MODULE Spec2Model ----
(***************************************************************************)
(* A model of dmini, the DMOD INI parser/generator (src/src/dmini.c).      *)
(*                                                                         *)
(* A C string is a sequence of one-character strings, <<"k","e","y">>;     *)
(* the null pointer is the value NULL.  A context is the sequence of its   *)
(* sections (the linked list ctx->sections), a section is a record of its  *)
(* name and the sequence of its pairs (the linked list section->pairs).    *)
(* Dmod_Malloc may fail: every call of the API draws an oracle `fail' that  *)
(* tells which of the allocations of that call return NULL.                *)
(* The client is idle or holds the result of its last call (op, pre); it   *)
(* drops the result before the next call.                                  *)
(***************************************************************************)
EXTENDS Integers, Sequences, FiniteSets, TLC

VARIABLES
    sections,   \* ctx->sections: the sections of the context, in list order
    pre,        \* ctx->sections as they were before the last call
    op,         \* the last API call: its name, arguments and return value
    parsed,     \* the sections of the second context of a round trip
    disk,       \* the content of the file the client names, NULL when absent
    io,         \* what the file functions of the last call did and were told
    refs,       \* the addresses of the context, its sections, pairs and strings
    heap,       \* the blocks of Dmod_Malloc that are allocated
    held,       \* the pointers into the heap that the client holds
    trace       \* what the last dmini_parse_string went through: its
                \* allocation oracle and the iterations of its loop

(* The state below the section list, which the calls that neither touch a
   file nor are followed into the heap leave alone *)
store == <<refs, heap, held>>

lower == <<disk, io, refs, heap, held, trace>>

vars == <<sections, pre, op, parsed, disk, io, refs, heap, held, trace>>

----------------------------------------------------------------------------
(* Bounds of the model *)

MaxSections == 2
MaxPairs == 2
MaxAllocs == 5
MaxGenSections == 3

(* Status codes, include/dmini.h *)
DMINI_OK == 0
DMINI_ERR_MEMORY == -2
DMINI_ERR_INVALID == -3
DMINI_ERR_NOT_FOUND == -4
DMINI_ERR_FILE == -5

(* The limits of the C int type (32 bits) *)
INT_MAX == 2147483647
INT_MIN == -INT_MAX - 1

NULL == <<"NULL">>

Range(s) == {s[i] : i \in 1..Len(s)}

----------------------------------------------------------------------------
(* Helper functions *)

IsSpace(c) == c = " " \/ c = "\t" \/ c = "\r" \/ c = "\n"

RECURSIVE SkipLeading(_)
SkipLeading(str) ==
    IF Len(str) > 0 /\ IsSpace(Head(str)) THEN SkipLeading(Tail(str)) ELSE str

RECURSIVE CutTrailing(_)
CutTrailing(str) ==
    IF Len(str) > 1 /\ IsSpace(str[Len(str)])
    THEN CutTrailing(SubSeq(str, 1, Len(str) - 1))
    ELSE str

(* The first index of str whose character is not in chars *)
Scan0(str, chars) ==
    IF \E i \in 1..Len(str) : str[i] \notin chars
    THEN CHOOSE i \in 1..Len(str) :
            str[i] \notin chars /\ \A j \in 1..(i - 1) : str[j] \in chars
    ELSE Len(str) + 1

(* trim_whitespace that takes only spaces for whitespace *)
trim_whitespace_spacesOnly(str) ==
    LET lead == Scan0(str, {" "})
        s == SubSeq(str, lead, Len(str))
    IN  IF Len(s) = 0 THEN s
        ELSE SubSeq(s, 1, CHOOSE e \in 1..Len(s) :
                             /\ (e = 1 \/ s[e] # " ")
                             /\ \A j \in (e + 1)..Len(s) : s[j] = " ")

trim_whitespace(str) ==
    LET s == SkipLeading(str) IN
    IF Len(s) = 0 THEN s ELSE CutTrailing(s)

(* Dmod_Malloc: the n-th allocation of a call fails when it is the one the
   oracle names (fail.once) or when memory is exhausted from that one on *)
Dmod_Malloc(n, fail) ==
    IF fail.once THEN n # fail.from ELSE n < fail.from

(* string_duplicate: a copy of str, or NULL when the allocation fails *)
string_duplicate(str, n, fail) ==
    IF str = NULL THEN [str |-> NULL, n |-> n]
    ELSE [str |-> IF Dmod_Malloc(n + 1, fail) THEN str ELSE NULL, n |-> n + 1]

(* find_section: the index of the first section that matches, 0 for none *)
SectionMatches(section, section_name) ==
    \/ section.name = NULL /\ section_name = NULL
    \/ section.name # NULL /\ section_name # NULL /\ section.name = section_name

find_section(secs, section_name) ==
    IF \E i \in 1..Len(secs) : SectionMatches(secs[i], section_name)
    THEN CHOOSE i \in 1..Len(secs) :
            /\ SectionMatches(secs[i], section_name)
            /\ \A j \in 1..(i - 1) : ~SectionMatches(secs[j], section_name)
    ELSE 0

(* find_pair: the index of the first pair with this key, 0 for none *)
find_pair(pairs, key) ==
    IF key # NULL /\ \E i \in 1..Len(pairs) : pairs[i].key = key
    THEN CHOOSE i \in 1..Len(pairs) :
            /\ pairs[i].key = key
            /\ \A j \in 1..(i - 1) : pairs[j].key # key
    ELSE 0

(* create_section: ok is FALSE when the node cannot be allocated; a name
   whose copy cannot be allocated is stored as NULL *)
create_section(name, n, fail) ==
    IF ~Dmod_Malloc(n + 1, fail)
    THEN [ok |-> FALSE, section |-> [name |-> NULL, pairs |-> <<>>], n |-> n + 1]
    ELSE LET d == string_duplicate(name, n + 1, fail) IN
         [ok |-> TRUE, section |-> [name |-> d.str, pairs |-> <<>>], n |-> d.n]

(* create_pair: the node, then both copies; all released when one is missing *)
create_pair(key, value, n, fail) ==
    IF ~Dmod_Malloc(n + 1, fail)
    THEN [ok |-> FALSE, pair |-> [key |-> NULL, value |-> NULL], n |-> n + 1]
    ELSE LET k == string_duplicate(key, n + 1, fail)
             v == string_duplicate(value, k.n, fail)
         IN  [ok |-> k.str # NULL /\ v.str # NULL,
              pair |-> [key |-> k.str, value |-> v.str],
              n |-> v.n]

(* get_or_create_section that links a new section behind the first one *)
get_or_create_section_linksSecond(secs, section_name, n, fail) ==
    LET found == find_section(secs, section_name) IN
    IF found # 0 THEN [sections |-> secs, idx |-> found, n |-> n]
    ELSE LET c == create_section(section_name, n, fail) IN
         IF ~c.ok THEN [sections |-> secs, idx |-> 0, n |-> c.n]
         ELSE [sections |-> <<Head(secs), c.section>> \o Tail(secs), idx |-> 2, n |-> c.n]

(* get_or_create_section: idx is the section's index, 0 for a NULL result *)
get_or_create_section(secs, section_name, n, fail) ==
    LET found == find_section(secs, section_name) IN
    IF found # 0 THEN [sections |-> secs, idx |-> found, n |-> n]
    ELSE LET c == create_section(section_name, n, fail) IN
         IF ~c.ok THEN [sections |-> secs, idx |-> 0, n |-> c.n]
         ELSE [sections |-> Append(secs, c.section), idx |-> Len(secs) + 1, n |-> c.n]

(* set_pair_in_section that appends without looking for the key *)
set_pair_in_section_noFind(pairs, key, value, n, fail) ==
    IF key = NULL THEN [pairs |-> pairs, ret |-> DMINI_ERR_INVALID, n |-> n]
    ELSE LET c == create_pair(key, value, n, fail) IN
         IF ~c.ok THEN [pairs |-> pairs, ret |-> DMINI_ERR_MEMORY, n |-> c.n]
         ELSE [pairs |-> Append(pairs, c.pair), ret |-> DMINI_OK, n |-> c.n]

(* set_pair_in_section on the pair list of one section *)
set_pair_in_section(pairs, key, value, n, fail) ==
    IF key = NULL THEN [pairs |-> pairs, ret |-> DMINI_ERR_INVALID, n |-> n]
    ELSE
    LET found == find_pair(pairs, key) IN
    IF found # 0
    THEN LET v == string_duplicate(value, n, fail) IN
         [pairs |-> [pairs EXCEPT ![found].value = v.str],
          ret |-> IF v.str = NULL THEN DMINI_ERR_MEMORY ELSE DMINI_OK,
          n |-> v.n]
    ELSE LET c == create_pair(key, value, n, fail) IN
         IF ~c.ok THEN [pairs |-> pairs, ret |-> DMINI_ERR_MEMORY, n |-> c.n]
         ELSE [pairs |-> Append(pairs, c.pair), ret |-> DMINI_OK, n |-> c.n]

----------------------------------------------------------------------------
(* Public API, as functions of the section list *)

(* dmini_create: a context holding the global section alone *)
dmini_create == << [name |-> NULL, pairs |-> <<>>] >>

dmini_set_string(secs, ctx, section, key, value, fail) ==
    IF ~ctx \/ key = NULL \/ value = NULL
    THEN [sections |-> secs, ret |-> DMINI_ERR_INVALID]
    ELSE LET g == get_or_create_section(secs, section, 0, fail) IN
         IF g.idx = 0 THEN [sections |-> g.sections, ret |-> DMINI_ERR_MEMORY]
         ELSE LET r == set_pair_in_section(g.sections[g.idx].pairs, key, value, g.n, fail)
              IN  [sections |-> [g.sections EXCEPT ![g.idx].pairs = r.pairs],
                   ret |-> r.ret]

dmini_get_string(secs, ctx, section, key, default_value) ==
    IF ~ctx \/ key = NULL THEN default_value
    ELSE LET sec == find_section(secs, section) IN
         IF sec = 0 THEN default_value
         ELSE LET pair == find_pair(secs[sec].pairs, key) IN
              IF pair = 0 THEN default_value ELSE secs[sec].pairs[pair].value

dmini_has_section(secs, ctx, section) ==
    IF ~ctx THEN 0
    ELSE IF find_section(secs, section) # 0 THEN 1 ELSE 0

dmini_has_key(secs, ctx, section, key) ==
    IF ~ctx \/ key = NULL THEN 0
    ELSE LET sec == find_section(secs, section) IN
         IF sec = 0 THEN 0
         ELSE IF find_pair(secs[sec].pairs, key) # 0 THEN 1 ELSE 0

(* Unlink that forgets to link the rest of the list *)
Unlink_dropsRest(s, i) == SubSeq(s, 1, i - 1)

(* The sequence s without its i-th element *)
Unlink(s, i) == SubSeq(s, 1, i - 1) \o SubSeq(s, i + 1, Len(s))

(* dmini_remove_section: unlinks the first section whose name is not NULL
   and equals the argument *)
RemovableSection(section, name) == section.name # NULL /\ section.name = name

(* dmini_remove_section that also matches the nameless section *)
dmini_remove_section_anySection(secs, ctx, section) ==
    IF ~ctx THEN [sections |-> secs, ret |-> DMINI_ERR_INVALID]
    ELSE LET curr == find_section(secs, section) IN
         IF curr # 0 THEN [sections |-> Unlink(secs, curr), ret |-> DMINI_OK]
         ELSE [sections |-> secs, ret |-> DMINI_ERR_NOT_FOUND]

dmini_remove_section(secs, ctx, section) ==
    IF ~ctx \/ section = NULL THEN [sections |-> secs, ret |-> DMINI_ERR_INVALID]
    ELSE IF \E i \in 1..Len(secs) : RemovableSection(secs[i], section)
         THEN LET curr == CHOOSE i \in 1..Len(secs) :
                            /\ RemovableSection(secs[i], section)
                            /\ \A j \in 1..(i - 1) : ~RemovableSection(secs[j], section)
              IN  [sections |-> Unlink(secs, curr), ret |-> DMINI_OK]
         ELSE [sections |-> secs, ret |-> DMINI_ERR_NOT_FOUND]

(* dmini_remove_key that unlinks a named section with its last pair *)
dmini_remove_key_dropsEmpty(secs, ctx, section, key) ==
    IF ~ctx \/ key = NULL THEN [sections |-> secs, ret |-> DMINI_ERR_INVALID]
    ELSE LET sec == find_section(secs, section) IN
         IF sec = 0 THEN [sections |-> secs, ret |-> DMINI_ERR_NOT_FOUND]
         ELSE LET curr == find_pair(secs[sec].pairs, key) IN
              IF curr = 0 THEN [sections |-> secs, ret |-> DMINI_ERR_NOT_FOUND]
              ELSE IF Len(secs[sec].pairs) = 1 /\ secs[sec].name # NULL
              THEN [sections |-> Unlink(secs, sec), ret |-> DMINI_OK]
              ELSE [sections |-> [secs EXCEPT ![sec].pairs = Unlink(@, curr)],
                    ret |-> DMINI_OK]

(* dmini_remove_key that looks the section up as the setters do *)
dmini_remove_key_createsSection(secs, ctx, section, key) ==
    IF ~ctx \/ key = NULL THEN [sections |-> secs, ret |-> DMINI_ERR_INVALID]
    ELSE LET g == get_or_create_section(secs, section, 1, [from |-> 0, once |-> TRUE])
             curr == find_pair(g.sections[g.idx].pairs, key)
         IN  IF curr = 0 THEN [sections |-> g.sections, ret |-> DMINI_ERR_NOT_FOUND]
             ELSE [sections |-> [g.sections EXCEPT ![g.idx].pairs = Unlink(@, curr)],
                   ret |-> DMINI_OK]
dmini_remove_key(secs, ctx, section, key) ==
    IF ~ctx \/ key = NULL THEN [sections |-> secs, ret |-> DMINI_ERR_INVALID]
    ELSE LET sec == find_section(secs, section) IN
         IF sec = 0 THEN [sections |-> secs, ret |-> DMINI_ERR_NOT_FOUND]
         ELSE LET curr == find_pair(secs[sec].pairs, key) IN
              IF curr = 0 THEN [sections |-> secs, ret |-> DMINI_ERR_NOT_FOUND]
              ELSE [sections |-> [secs EXCEPT ![sec].pairs = Unlink(@, curr)],
                    ret |-> DMINI_OK]

----------------------------------------------------------------------------
(* dmini_parse_string *)

(* The first index i >= from with s[i] in chars, Len(s) + 1 when there is none *)
Scan(s, from, chars) ==
    IF \E i \in from..Len(s) : s[i] \in chars
    THEN CHOOSE i \in from..Len(s) :
            s[i] \in chars /\ \A j \in from..(i - 1) : s[j] \notin chars
    ELSE Len(s) + 1

(* NextLine that skips the character after the terminator whatever it is *)
NextLine_skipsAny(rest) ==
    LET eol == Scan(rest, 1, {"\n", "\r"}) IN
    IF eol > Len(rest) THEN <<>>
    ELSE SubSeq(rest, eol + 2, Len(rest))
(* The text that follows the first line of rest: the terminator is skipped,
   and one more '\n' or '\r' that follows it *)
NextLine(rest) ==
    LET eol == Scan(rest, 1, {"\n", "\r"}) IN
    IF eol > Len(rest) THEN <<>>
    ELSE IF eol + 1 <= Len(rest) /\ rest[eol + 1] \in {"\n", "\r"}
         THEN SubSeq(rest, eol + 2, Len(rest))
         ELSE SubSeq(rest, eol + 1, Len(rest))

(* ParseLine that does not know comments *)
ParseLine_noComments(st, raw, fail) ==
    LET line == trim_whitespace(raw) IN
    IF Len(line) = 0 THEN st
    ELSE IF line[1] = "["
    THEN LET section_end == Scan(line, 2, {"]"}) IN
         IF section_end > Len(line) THEN st
         ELSE LET section_name == trim_whitespace(SubSeq(line, 2, section_end - 1))
                  g == get_or_create_section(st.sections, section_name, st.n, fail)
              IN  IF g.idx = 0
                  THEN [st EXCEPT !.n = g.n, !.cur = 0, !.ret = DMINI_ERR_MEMORY]
                  ELSE [st EXCEPT !.sections = g.sections, !.cur = g.idx, !.n = g.n]
    ELSE LET equals == Scan(line, 1, {"="}) IN
         IF equals > Len(line) THEN st
         ELSE LET key == trim_whitespace(SubSeq(line, 1, equals - 1))
                  value == trim_whitespace(SubSeq(line, equals + 1, Len(line)))
              IN  IF Len(key) = 0 THEN st
                  ELSE LET r == set_pair_in_section(st.sections[st.cur].pairs,
                                                    key, value, st.n, fail)
                       IN  [st EXCEPT !.sections[st.cur].pairs = r.pairs,
                                      !.n = r.n, !.ret = r.ret]
(* ParseLine that takes a line with '[' and no ']' for a key=value line *)
ParseLine_keyFromBrokenHeader(st, raw, fail) ==
    LET line == trim_whitespace(raw) IN
    IF Len(line) = 0 \/ line[1] = ";" \/ line[1] = "#" THEN st
    ELSE IF line[1] = "[" /\ Scan(line, 2, {"]"}) <= Len(line)
    THEN LET section_end == Scan(line, 2, {"]"})
             section_name == trim_whitespace(SubSeq(line, 2, section_end - 1))
             g == get_or_create_section(st.sections, section_name, st.n, fail)
         IN  IF g.idx = 0
             THEN [st EXCEPT !.n = g.n, !.cur = 0, !.ret = DMINI_ERR_MEMORY]
             ELSE [st EXCEPT !.sections = g.sections, !.cur = g.idx, !.n = g.n]
    ELSE LET equals == Scan(line, 1, {"="}) IN
         IF equals > Len(line) THEN st
         ELSE LET key == trim_whitespace(SubSeq(line, 1, equals - 1))
                  value == trim_whitespace(SubSeq(line, equals + 1, Len(line)))
              IN  IF Len(key) = 0 THEN st
                  ELSE LET r == set_pair_in_section(st.sections[st.cur].pairs,
                                                    key, value, st.n, fail)
                       IN  [st EXCEPT !.sections[st.cur].pairs = r.pairs,
                                      !.n = r.n, !.ret = r.ret]

(* ParseLine that makes the section of a header and stays in the section
   it was in *)
ParseLine_headerKeepsCurrent(st, raw, fail) ==
    LET line == trim_whitespace(raw) IN
    IF Len(line) = 0 \/ line[1] = ";" \/ line[1] = "#" THEN st
    ELSE IF line[1] = "["
    THEN LET section_end == Scan(line, 2, {"]"}) IN
         IF section_end > Len(line) THEN st
         ELSE LET section_name == trim_whitespace(SubSeq(line, 2, section_end - 1))
                  g == get_or_create_section(st.sections, section_name, st.n, fail)
              IN  IF g.idx = 0
                  THEN [st EXCEPT !.n = g.n, !.cur = 0, !.ret = DMINI_ERR_MEMORY]
                  ELSE [st EXCEPT !.sections = g.sections, !.n = g.n]
    ELSE LET equals == Scan(line, 1, {"="}) IN
         IF equals > Len(line) THEN st
         ELSE LET key == trim_whitespace(SubSeq(line, 1, equals - 1))
                  value == trim_whitespace(SubSeq(line, equals + 1, Len(line)))
              IN  IF Len(key) = 0 THEN st
                  ELSE LET r == set_pair_in_section(st.sections[st.cur].pairs,
                                                    key, value, st.n, fail)
                       IN  [st EXCEPT !.sections[st.cur].pairs = r.pairs,
                                      !.n = r.n, !.ret = r.ret]

(* ParseLine that returns the invalid status for a line without '=' *)
ParseLine_rejectsNoEquals(st, raw, fail) ==
    LET line == trim_whitespace(raw) IN
    IF Len(line) = 0 \/ line[1] = ";" \/ line[1] = "#" THEN st
    ELSE IF line[1] = "["
    THEN LET section_end == Scan(line, 2, {"]"}) IN
         IF section_end > Len(line) THEN st
         ELSE LET section_name == trim_whitespace(SubSeq(line, 2, section_end - 1))
                  g == get_or_create_section(st.sections, section_name, st.n, fail)
              IN  IF g.idx = 0
                  THEN [st EXCEPT !.n = g.n, !.cur = 0, !.ret = DMINI_ERR_MEMORY]
                  ELSE [st EXCEPT !.sections = g.sections, !.cur = g.idx, !.n = g.n]
    ELSE LET equals == Scan(line, 1, {"="}) IN
         IF equals > Len(line) THEN [st EXCEPT !.ret = DMINI_ERR_INVALID]
         ELSE LET key == trim_whitespace(SubSeq(line, 1, equals - 1))
                  value == trim_whitespace(SubSeq(line, equals + 1, Len(line)))
              IN  IF Len(key) = 0 THEN st
                  ELSE LET r == set_pair_in_section(st.sections[st.cur].pairs,
                                                    key, value, st.n, fail)
                       IN  [st EXCEPT !.sections[st.cur].pairs = r.pairs,
                                      !.n = r.n, !.ret = r.ret]

(* One line of the loop: st is [sections, cur, n, ret], cur the index of
   current_section; ret stays DMINI_OK unless the line makes the call return *)
ParseLine(st, raw, fail) ==
    LET line == trim_whitespace(raw) IN
    IF Len(line) = 0 \/ line[1] = ";" \/ line[1] = "#" THEN st
    ELSE IF line[1] = "["
    THEN LET section_end == Scan(line, 2, {"]"}) IN
         IF section_end > Len(line) THEN st
         ELSE LET section_name == trim_whitespace(SubSeq(line, 2, section_end - 1))
                  g == get_or_create_section(st.sections, section_name, st.n, fail)
              IN  IF g.idx = 0
                  THEN [st EXCEPT !.n = g.n, !.cur = 0, !.ret = DMINI_ERR_MEMORY]
                  ELSE [st EXCEPT !.sections = g.sections, !.cur = g.idx, !.n = g.n]
    ELSE LET equals == Scan(line, 1, {"="}) IN
         IF equals > Len(line) THEN st
         ELSE LET key == trim_whitespace(SubSeq(line, 1, equals - 1))
                  value == trim_whitespace(SubSeq(line, equals + 1, Len(line)))
              IN  IF Len(key) = 0 THEN st
                  ELSE LET r == set_pair_in_section(st.sections[st.cur].pairs,
                                                    key, value, st.n, fail)
                       IN  [st EXCEPT !.sections[st.cur].pairs = r.pairs,
                                      !.n = r.n, !.ret = r.ret]

RECURSIVE ParseLines(_, _, _)
ParseLines(st, rest, fail) ==
    IF Len(rest) = 0 \/ st.ret # DMINI_OK THEN st
    ELSE LET eol == Scan(rest, 1, {"\n", "\r"}) IN
         ParseLines(ParseLine(st, SubSeq(rest, 1, eol - 1), fail), NextLine(rest), fail)

dmini_parse_string(secs, ctx, data, fail) ==
    IF ~ctx \/ data = NULL THEN [sections |-> secs, ret |-> DMINI_ERR_INVALID]
    ELSE LET buffer == string_duplicate(data, 0, fail) IN
         IF buffer.str = NULL THEN [sections |-> secs, ret |-> DMINI_ERR_MEMORY]
         ELSE LET st == ParseLines([sections |-> secs, cur |-> 1, n |-> buffer.n,
                                    ret |-> DMINI_OK], buffer.str, fail)
              IN  [sections |-> st.sections, ret |-> st.ret]

----------------------------------------------------------------------------
(* The iterations of the loop of dmini_parse_string: for each one the text
   left before it (rest) and after it (next), the line it cut (raw) and the
   state of the loop before (from) and after (to) *)
RECURSIVE ParseSteps(_, _, _)
ParseSteps(st, rest, fail) ==
    IF Len(rest) = 0 \/ st.ret # DMINI_OK THEN <<>>
    ELSE LET eol == Scan(rest, 1, {"\n", "\r"})
             raw == SubSeq(rest, 1, eol - 1)
         IN  CHOOSE steps \in
                 {<<[raw |-> raw, rest |-> rest, next |-> next, from |-> st, to |-> to]>>
                  \o ParseSteps(to, next, fail) :
                     to \in {ParseLine(st, raw, fail)}, next \in {NextLine(rest)}} : TRUE

(* What dmini_parse_string went through: the oracle of its allocations, the
   number of allocations it attempted and the iterations of its loop *)
parse_string_trace(secs, ctx, data, fail) ==
    IF ~ctx \/ data = NULL THEN [fail |-> fail, n |-> 0, steps |-> <<>>]
    ELSE LET buffer == string_duplicate(data, 0, fail) IN
         IF buffer.str = NULL THEN [fail |-> fail, n |-> buffer.n, steps |-> <<>>]
         ELSE LET steps == ParseSteps([sections |-> secs, cur |-> 1, n |-> buffer.n,
                                       ret |-> DMINI_OK], buffer.str, fail)
              IN  [fail |-> fail,
                   n |-> IF Len(steps) = 0 THEN buffer.n ELSE steps[Len(steps)].to.n,
                   steps |-> steps]

----------------------------------------------------------------------------

(* dmini_generate_string *)

RECURSIVE Concat(_)
Concat(ss) == IF Len(ss) = 0 THEN <<>> ELSE Head(ss) \o Concat(Tail(ss))

PairText(pair) == pair.key \o <<"=">> \o pair.value \o <<"\n">>

(* What the writing pass emits for the i-th section *)
SectionText(secs, i) ==
    (IF secs[i].name # NULL THEN <<"[">> \o secs[i].name \o <<"]", "\n">> ELSE <<>>)
    \o Concat([j \in 1..Len(secs[i].pairs) |-> PairText(secs[i].pairs[j])])
    \o (IF secs[i].name # NULL /\ i < Len(secs) THEN <<"\n">> ELSE <<>>)

(* strlen of a NULL value is undefined: the model marks such a context *)
HasNullValue(secs) ==
    \E i \in 1..Len(secs) : \E j \in 1..Len(secs[i].pairs) :
        secs[i].pairs[j].value = NULL

dmini_generate_string(secs, ctx, fail) ==
    IF ~ctx THEN NULL
    ELSE IF ~Dmod_Malloc(1, fail) THEN NULL
    ELSE Concat([i \in 1..Len(secs) |-> SectionText(secs, i)])

----------------------------------------------------------------------------
(* The sizing pass: the bytes the writing pass will need, the terminating
   zero not counted *)
RECURSIVE SumOver(_, _)
SumOver(f, n) == IF n = 0 THEN 0 ELSE f[n] + SumOver(f, n - 1)

(* buffer_size that counts the empty line after the last section too *)
buffer_size_lineAfterLast(secs) ==
    SumOver([i \in 1..Len(secs) |->
                (IF secs[i].name # NULL THEN Len(secs[i].name) + 3 ELSE 0)
                + SumOver([j \in 1..Len(secs[i].pairs) |->
                              Len(secs[i].pairs[j].key)
                              + Len(secs[i].pairs[j].value) + 2],
                          Len(secs[i].pairs))
                + (IF secs[i].name # NULL THEN 1 ELSE 0)],
            Len(secs))

buffer_size(secs) ==
    SumOver([i \in 1..Len(secs) |->
                (IF secs[i].name # NULL THEN Len(secs[i].name) + 3 ELSE 0)
                + SumOver([j \in 1..Len(secs[i].pairs) |->
                              Len(secs[i].pairs[j].key)
                              + Len(secs[i].pairs[j].value) + 2],
                          Len(secs[i].pairs))
                + (IF secs[i].name # NULL /\ i < Len(secs) THEN 1 ELSE 0)],
            Len(secs))

(* A call that does not return: the process stops at a null pointer *)
Fault == <<"FAULT">>

(* What strlen and memcpy can find at the null pointer on a machine that
   lets the read through *)
AtNull == {<<>>, <<"?">>}

(* The context as the two passes read it when every NULL value reads as g *)
ReadNullAs(secs, g) ==
    [i \in 1..Len(secs) |->
        [secs[i] EXCEPT !.pairs =
            [j \in 1..Len(secs[i].pairs) |->
                IF secs[i].pairs[j].value = NULL
                THEN [secs[i].pairs[j] EXCEPT !.value = g]
                ELSE secs[i].pairs[j]]]]

(* The results dmini_generate_string can have: one, unless a pair has no
   value, where strlen(NULL) is undefined *)
generate_string_outcomes(secs, ctx, fail) ==
    IF ctx /\ HasNullValue(secs)
    THEN {Fault} \cup {dmini_generate_string(ReadNullAs(secs, g), ctx, fail) : g \in AtNull}
    ELSE {dmini_generate_string(secs, ctx, fail)}

----------------------------------------------------------------------------
(* What is known of the file functions in a call: whether the open was
   tried and gave a handle, the size of the file or of the text, the count
   the read or write reported (-1: not tried), the bytes handed over, and
   how many times Dmod_FileClose was called *)
IoNone == [open |-> "none", size |-> 0, count |-> -1, data |-> NULL, closes |-> 0]

(* dmini_parse_file and dmini_generate_file.  The file functions of the
   platform are the environment: Dmod_FileOpen gives a handle or NULL,
   Dmod_FileRead and Dmod_FileWrite report how many bytes they moved. *)

(* The oracle as the allocations after the first k of a call see it *)
Shift(fail, k) == [fail EXCEPT !.from = @ - k]

(* dmini_parse_file that returns without closing the file when the buffer
   is not allocated *)
dmini_parse_file_keepsOpen(secs, ctx, filename, file, bytes_read, fail) ==
    IF ~ctx \/ filename = NULL
    THEN [sections |-> secs, ret |-> DMINI_ERR_INVALID, io |-> IoNone]
    ELSE IF file = NULL
    THEN [sections |-> secs, ret |-> DMINI_ERR_FILE,
          io |-> [IoNone EXCEPT !.open = "failed"]]
    ELSE IF ~Dmod_Malloc(1, fail)
    THEN [sections |-> secs, ret |-> DMINI_ERR_MEMORY,
          io |-> [IoNone EXCEPT !.open = "ok", !.size = Len(file)]]
    ELSE LET buffer == SubSeq(file, 1, bytes_read)
             r == dmini_parse_string(secs, ctx, buffer, Shift(fail, 1))
         IN  [sections |-> r.sections, ret |-> r.ret,
              io |-> [open |-> "ok", size |-> Len(file), count |-> bytes_read,
                      data |-> buffer, closes |-> 1]]

(* file is what Dmod_FileOpen finds, NULL when it gives no handle;
   bytes_read is what Dmod_FileRead reports *)
dmini_parse_file(secs, ctx, filename, file, bytes_read, fail) ==
    IF ~ctx \/ filename = NULL
    THEN [sections |-> secs, ret |-> DMINI_ERR_INVALID, io |-> IoNone]
    ELSE IF file = NULL
    THEN [sections |-> secs, ret |-> DMINI_ERR_FILE,
          io |-> [IoNone EXCEPT !.open = "failed"]]
    ELSE IF ~Dmod_Malloc(1, fail)
    THEN [sections |-> secs, ret |-> DMINI_ERR_MEMORY,
          io |-> [IoNone EXCEPT !.open = "ok", !.size = Len(file), !.closes = 1]]
    ELSE LET buffer == SubSeq(file, 1, bytes_read)
             r == dmini_parse_string(secs, ctx, buffer, Shift(fail, 1))
         IN  [sections |-> r.sections, ret |-> r.ret,
              io |-> [open |-> "ok", size |-> Len(file), count |-> bytes_read,
                      data |-> buffer, closes |-> 1]]

(* generate_file_on that does not compare what was written with the length *)
generate_file_on_anyWrite(data, file, opens, lost) ==
    IF data = NULL
    THEN [ret |-> DMINI_ERR_MEMORY, io |-> IoNone, disk |-> file]
    ELSE IF ~opens
    THEN [ret |-> DMINI_ERR_FILE, disk |-> file,
          io |-> [IoNone EXCEPT !.open = "failed", !.data = data]]
    ELSE LET data_len == Len(data)
             bytes_written == IF lost > data_len THEN 0 ELSE data_len - lost
         IN  [ret |-> DMINI_OK,
              disk |-> SubSeq(data, 1, bytes_written),
              io |-> [open |-> "ok", size |-> data_len, count |-> bytes_written,
                      data |-> data, closes |-> 1]]

(* data is what dmini_generate_string returned; opens tells whether
   Dmod_FileOpen gives a handle, and Dmod_FileWrite reports lost bytes less
   than it was given.  The file holds what was written. *)
generate_file_on(data, file, opens, lost) ==
    IF data = NULL
    THEN [ret |-> DMINI_ERR_MEMORY, io |-> IoNone, disk |-> file]
    ELSE IF ~opens
    THEN [ret |-> DMINI_ERR_FILE, disk |-> file,
          io |-> [IoNone EXCEPT !.open = "failed", !.data = data]]
    ELSE LET data_len == Len(data)
             bytes_written == IF lost > data_len THEN 0 ELSE data_len - lost
         IN  [ret |-> IF bytes_written # data_len THEN DMINI_ERR_FILE ELSE DMINI_OK,
              disk |-> SubSeq(data, 1, bytes_written),
              io |-> [open |-> "ok", size |-> data_len, count |-> bytes_written,
                      data |-> data, closes |-> 1]]

(* The outcomes of dmini_generate_file, fault telling that the call stopped
   in dmini_generate_string *)
dmini_generate_file(secs, ctx, filename, file, opens, lost, fail) ==
    IF ~ctx \/ filename = NULL
    THEN {[ret |-> DMINI_ERR_INVALID, io |-> IoNone, disk |-> file, fault |-> FALSE]}
    ELSE {IF data = Fault
          THEN [ret |-> DMINI_ERR_MEMORY, io |-> IoNone, disk |-> file, fault |-> TRUE]
          ELSE [fault |-> FALSE] @@ generate_file_on(data, file, opens, lost) :
             data \in generate_string_outcomes(secs, ctx, fail)}

----------------------------------------------------------------------------

(* The heap: every operator below is the function of the same name above,
   followed through Dmod_Malloc and Dmod_Free. An address is a number of
   1..MaxBlocks and 0 is the NULL pointer. refs mirrors the section list:
   refs.ctx is the address of the context, refs.secs[i] holds the address of
   the i-th section node (at), of its name and, for each of its pairs, of
   the pair node (at), its key and its value. m is the heap within a call:
   the blocks allocated (live), the number of allocations attempted (n),
   the addresses freed (freed), the blocks the call allocated and did not
   free (made), and whether a block was freed that was not allocated
   (bad). *)

MaxBlocks == 20

NoRefs == [ctx |-> 0, secs |-> <<>>]

EmptyHeap == [live |-> {}, bad |-> FALSE, fresh |-> {}]

(* The heap as a call finds it *)
Entered(h) == [live |-> h.live, bad |-> h.bad, n |-> 0, freed |-> {}, made |-> {}]

(* The heap as a call leaves it *)
Settled(h, m) == [live |-> m.live, bad |-> m.bad, fresh |-> m.made]

(* Dmod_Malloc: the lowest free address, 0 when the allocation fails *)
H_Malloc(m, fail) ==
    IF Dmod_Malloc(m.n + 1, fail)
    THEN LET at == CHOOSE a \in (1..MaxBlocks) \ m.live :
                       \A b \in (1..MaxBlocks) \ m.live : a <= b
         IN  [m |-> [m EXCEPT !.live = @ \cup {at}, !.made = @ \cup {at}, !.n = @ + 1],
              at |-> at]
    ELSE [m |-> [m EXCEPT !.n = @ + 1], at |-> 0]

(* Dmod_Free of a pointer that is not NULL *)
H_Free(m, at) ==
    [m EXCEPT !.live = @ \ {at}, !.made = @ \ {at}, !.freed = @ \cup {at},
              !.bad = @ \/ at \notin m.live]

(* Dmod_Free behind a test for NULL *)
H_FreeIf(m, at) == IF at # 0 THEN H_Free(m, at) ELSE m

H_string_duplicate(str, m, fail) ==
    IF str = NULL THEN [m |-> m, at |-> 0] ELSE H_Malloc(m, fail)

H_create_section(name, m, fail) ==
    LET section == H_Malloc(m, fail) IN
    IF section.at = 0
    THEN [ok |-> FALSE, m |-> section.m, ref |-> [at |-> 0, name |-> 0, pairs |-> <<>>]]
    ELSE LET d == H_string_duplicate(name, section.m, fail) IN
         [ok |-> TRUE, m |-> d.m,
          ref |-> [at |-> section.at, name |-> d.at, pairs |-> <<>>]]

(* create_pair that keeps the copy of the key when the value cannot be
   copied *)
H_create_pair_keepsKey(key, value, m, fail) ==
    LET pair == H_Malloc(m, fail) IN
    IF pair.at = 0
    THEN [ok |-> FALSE, m |-> pair.m, ref |-> [at |-> 0, key |-> 0, value |-> 0]]
    ELSE LET k == H_string_duplicate(key, pair.m, fail)
             v == H_string_duplicate(value, k.m, fail)
         IN  IF k.at = 0 \/ v.at = 0
             THEN [ok |-> FALSE,
                   m |-> H_Free(H_FreeIf(v.m, v.at), pair.at),
                   ref |-> [at |-> 0, key |-> 0, value |-> 0]]
             ELSE [ok |-> TRUE, m |-> v.m,
                   ref |-> [at |-> pair.at, key |-> k.at, value |-> v.at]]

H_create_pair(key, value, m, fail) ==
    LET pair == H_Malloc(m, fail) IN
    IF pair.at = 0
    THEN [ok |-> FALSE, m |-> pair.m, ref |-> [at |-> 0, key |-> 0, value |-> 0]]
    ELSE LET k == H_string_duplicate(key, pair.m, fail)
             v == H_string_duplicate(value, k.m, fail)
         IN  IF k.at = 0 \/ v.at = 0
             THEN [ok |-> FALSE,
                   m |-> H_Free(H_FreeIf(H_FreeIf(v.m, k.at), v.at), pair.at),
                   ref |-> [at |-> 0, key |-> 0, value |-> 0]]
             ELSE [ok |-> TRUE, m |-> v.m,
                   ref |-> [at |-> pair.at, key |-> k.at, value |-> v.at]]

H_free_pair(m, pair) ==
    H_Free(H_FreeIf(H_FreeIf(m, pair.key), pair.value), pair.at)

RECURSIVE H_free_pairs(_, _)
H_free_pairs(m, pairs) ==
    IF Len(pairs) = 0 THEN m
    ELSE H_free_pairs(H_free_pair(m, Head(pairs)), Tail(pairs))

H_free_section(m, section) ==
    H_Free(H_FreeIf(H_free_pairs(m, section.pairs), section.name), section.at)

(* rs is the list of the section addresses and secs the section list *)
H_get_or_create_section(rs, secs, section_name, m, fail) ==
    LET found == find_section(secs, section_name) IN
    IF found # 0 THEN [secs |-> rs, idx |-> found, m |-> m]
    ELSE LET c == H_create_section(section_name, m, fail) IN
         IF ~c.ok THEN [secs |-> rs, idx |-> 0, m |-> c.m]
         ELSE [secs |-> Append(rs, c.ref), idx |-> Len(rs) + 1, m |-> c.m]

(* rp is the list of the pair addresses of a section and pairs its pairs *)
H_set_pair_in_section(rp, pairs, key, value, m, fail) ==
    IF key = NULL THEN [pairs |-> rp, m |-> m]
    ELSE
    LET found == find_pair(pairs, key) IN
    IF found # 0
    THEN LET v == H_string_duplicate(value, H_FreeIf(m, rp[found].value), fail) IN
         [pairs |-> [rp EXCEPT ![found].value = v.at], m |-> v.m]
    ELSE LET c == H_create_pair(key, value, m, fail) IN
         IF ~c.ok THEN [pairs |-> rp, m |-> c.m]
         ELSE [pairs |-> Append(rp, c.ref), m |-> c.m]

(* The public functions: r is refs and secs the section list of the
   context, the result holds the addresses and the heap after the call *)

H_dmini_create(h, fail) ==
    LET ctx == H_Malloc(Entered(h), fail) IN
    IF ctx.at = 0 THEN [refs |-> NoRefs, m |-> ctx.m]
    ELSE LET s == H_create_section(NULL, ctx.m, fail) IN
         IF ~s.ok THEN [refs |-> NoRefs, m |-> H_Free(s.m, ctx.at)]
         ELSE [refs |-> [ctx |-> ctx.at, secs |-> <<s.ref>>], m |-> s.m]

RECURSIVE H_free_sections(_, _)
H_free_sections(m, rs) ==
    IF Len(rs) = 0 THEN m
    ELSE H_free_sections(H_free_section(m, Head(rs)), Tail(rs))

H_dmini_destroy(r, ctx, h) ==
    IF ~ctx THEN [refs |-> r, m |-> Entered(h)]
    ELSE [refs |-> NoRefs, m |-> H_Free(H_free_sections(Entered(h), r.secs), r.ctx)]

H_dmini_set_string(r, secs, ctx, section, key, value, h, fail) ==
    IF ~ctx \/ key = NULL \/ value = NULL THEN [refs |-> r, m |-> Entered(h)]
    ELSE LET g == H_get_or_create_section(r.secs, secs, section, Entered(h), fail)
             v == get_or_create_section(secs, section, 0, fail)
         IN  IF g.idx = 0 THEN [refs |-> [r EXCEPT !.secs = g.secs], m |-> g.m]
             ELSE LET p == H_set_pair_in_section(g.secs[g.idx].pairs,
                                                 v.sections[v.idx].pairs,
                                                 key, value, g.m, fail)
                  IN  [refs |-> [r EXCEPT !.secs = [g.secs EXCEPT ![g.idx].pairs = p.pairs]],
                       m |-> p.m]

(* The pointer dmini_get_string returns when it finds the key, 0 when it
   returns default_value *)
H_dmini_get_string(r, secs, ctx, section, key) ==
    IF ~ctx \/ key = NULL THEN 0
    ELSE LET sec == find_section(secs, section) IN
         IF sec = 0 THEN 0
         ELSE LET pair == find_pair(secs[sec].pairs, key) IN
              IF pair = 0 THEN 0 ELSE r.secs[sec].pairs[pair].value

H_dmini_remove_section(r, secs, ctx, section, h) ==
    IF dmini_remove_section(secs, ctx, section).ret # DMINI_OK
    THEN [refs |-> r, m |-> Entered(h)]
    ELSE LET curr == CHOOSE i \in 1..Len(secs) :
                        /\ RemovableSection(secs[i], section)
                        /\ \A j \in 1..(i - 1) : ~RemovableSection(secs[j], section)
         IN  [refs |-> [r EXCEPT !.secs = Unlink(@, curr)],
              m |-> H_free_section(Entered(h), r.secs[curr])]

H_dmini_remove_key(r, secs, ctx, section, key, h) ==
    IF dmini_remove_key(secs, ctx, section, key).ret # DMINI_OK
    THEN [refs |-> r, m |-> Entered(h)]
    ELSE LET sec == find_section(secs, section)
             curr == find_pair(secs[sec].pairs, key)
         IN  [refs |-> [r EXCEPT !.secs[sec].pairs = Unlink(@, curr)],
              m |-> H_free_pair(Entered(h), r.secs[sec].pairs[curr])]

(* One line of dmini_parse_string, for the section addresses and the heap:
   st is the state of ParseLine with the section addresses (refs) and the
   heap (m) *)
H_ParseLineHeap(st, raw, fail) ==
    LET line == trim_whitespace(raw)
        same == [refs |-> st.refs, m |-> st.m]
    IN
    IF Len(line) = 0 \/ line[1] = ";" \/ line[1] = "#" THEN same
    ELSE IF line[1] = "["
    THEN LET section_end == Scan(line, 2, {"]"}) IN
         IF section_end > Len(line) THEN same
         ELSE LET section_name == trim_whitespace(SubSeq(line, 2, section_end - 1))
                  g == H_get_or_create_section(st.refs, st.sections, section_name,
                                               st.m, fail)
              IN  [refs |-> g.secs, m |-> g.m]
    ELSE LET equals == Scan(line, 1, {"="}) IN
         IF equals > Len(line) THEN same
         ELSE LET key == trim_whitespace(SubSeq(line, 1, equals - 1))
                  value == trim_whitespace(SubSeq(line, equals + 1, Len(line)))
              IN  IF Len(key) = 0 THEN same
                  ELSE LET p == H_set_pair_in_section(st.refs[st.cur].pairs,
                                                      st.sections[st.cur].pairs,
                                                      key, value, st.m, fail)
                       IN  [refs |-> [st.refs EXCEPT ![st.cur].pairs = p.pairs],
                            m |-> p.m]

(* One line of dmini_parse_string: ParseLine together with its heap *)
H_ParseLine(st, raw, fail) ==
    ParseLine([sections |-> st.sections, cur |-> st.cur, n |-> st.n, ret |-> st.ret],
              raw, fail)
    @@ H_ParseLineHeap(st, raw, fail)

RECURSIVE H_ParseLines(_, _, _)
H_ParseLines(st, rest, fail) ==
    IF Len(rest) = 0 \/ st.ret # DMINI_OK THEN st
    ELSE LET eol == Scan(rest, 1, {"\n", "\r"}) IN
         H_ParseLines(H_ParseLine(st, SubSeq(rest, 1, eol - 1), fail), NextLine(rest), fail)

(* dmini_parse_string within a call whose heap is m *)
H_parse_string(r, secs, ctx, data, m, fail) ==
    IF ~ctx \/ data = NULL THEN [refs |-> r, m |-> m]
    ELSE LET buffer == H_string_duplicate(data, m, fail) IN
         IF buffer.at = 0 THEN [refs |-> r, m |-> buffer.m]
         ELSE LET st == H_ParseLines([sections |-> secs, cur |-> 1, n |-> buffer.m.n,
                                      ret |-> DMINI_OK, refs |-> r.secs, m |-> buffer.m],
                                     data, fail)
              IN  [refs |-> [r EXCEPT !.secs = st.refs], m |-> H_Free(st.m, buffer.at)]

H_dmini_parse_string(r, secs, ctx, data, h, fail) ==
    H_parse_string(r, secs, ctx, data, Entered(h), fail)

(* file is NULL when Dmod_FileOpen fails *)
H_dmini_parse_file(r, secs, ctx, filename, file, bytes_read, h, fail) ==
    IF ~ctx \/ filename = NULL \/ file = NULL THEN [refs |-> r, m |-> Entered(h)]
    ELSE LET buffer == H_Malloc(Entered(h), fail) IN
         IF buffer.at = 0 THEN [refs |-> r, m |-> buffer.m]
         ELSE LET p == H_parse_string(r, secs, ctx, SubSeq(file, 1, bytes_read),
                                      buffer.m, fail)
              IN  [refs |-> p.refs, m |-> H_Free(p.m, buffer.at)]

(* dmini_generate_string of a context without NULL value: at is the
   address of the text, 0 for NULL *)
H_dmini_generate_string(ctx, h, fail) ==
    IF ~ctx THEN [at |-> 0, m |-> Entered(h)]
    ELSE H_Malloc(Entered(h), fail)

H_dmini_generate_file(ctx, filename, h, fail) ==
    IF ~ctx \/ filename = NULL THEN Entered(h)
    ELSE LET data == H_dmini_generate_string(ctx, h, fail) IN
         H_FreeIf(data.m, data.at)

(* The blocks the context owns *)
PairBlocks(pair) == {pair.at, pair.key, pair.value} \ {0}

SectionBlocks(section) ==
    ({section.at, section.name} \ {0})
    \cup UNION {PairBlocks(section.pairs[j]) : j \in 1..Len(section.pairs)}

Owned(r) ==
    ({r.ctx} \ {0}) \cup UNION {SectionBlocks(r.secs[i]) : i \in 1..Len(r.secs)}

----------------------------------------------------------------------------

(* dmini_get_int and dmini_set_int: C int arithmetic on 32 bits *)

(* The characters with the codes 39..57; '0' has the code 48 *)
Ascii == << "'", "(", ")", "*", "+", ",", "-", ".", "/",
            "0", "1", "2", "3", "4", "5", "6", "7", "8", "9" >>
CharOf(code) == Ascii[code - 38]
Digits == {CharOf(48 + d) : d \in 0..9}
DigitOf(c) == CHOOSE d \in 0..9 : CharOf(48 + d) = c

(* C's / and % truncate toward zero *)
CDiv(a, b) == IF a >= 0 \/ a % b = 0 THEN a \div b ELSE (a \div b) + 1
CRem(a, b) == a - b * CDiv(a, b)

(* result * 10 + digit on a machine that wraps around: the 32 bits of the
   result as two halves of 16 bits *)
WrapMulAdd(result, digit) ==
    LET hi == (result \div 65536) % 65536
        lo == result % 65536
        low == (lo * 10) + digit
        high == ((hi * 10) + (low \div 65536)) % 65536
    IN  ((IF high >= 32768 THEN high - 65536 ELSE high) * 65536) + (low % 65536)

(* The digit loop of dmini_get_int from position p on: ub tells that
   result * 10 + digit left the range of int, which C leaves undefined *)
RECURSIVE ConvertDigits(_, _, _)
ConvertDigits(value, p, acc) ==
    IF p > Len(value) \/ value[p] \notin Digits THEN acc
    ELSE LET d == DigitOf(value[p])
             over == acc.result < 0 \/ acc.result > (INT_MAX - d) \div 10
         IN  ConvertDigits(value, p + 1,
                 [result |-> IF over THEN WrapMulAdd(acc.result, d)
                             ELSE acc.result * 10 + d,
                  ub |-> acc.ub \/ over])

(* The values dmini_get_int can return: one, unless the conversion is
   undefined, where a machine that wraps around returns one value and a
   machine that saturates another *)
dmini_get_int(secs, ctx, section, key, default_value) ==
    LET value == dmini_get_string(secs, ctx, section, key, NULL) IN
    IF value = NULL THEN {default_value}
    ELSE LET p == Scan(value, 1, {c \in Range(value) : c # " " /\ c # "\t"})
             sign == IF p <= Len(value) /\ value[p] = "-" THEN -1 ELSE 1
             q == IF p <= Len(value) /\ value[p] \in {"-", "+"} THEN p + 1 ELSE p
             c == ConvertDigits(value, q, [result |-> 0, ub |-> FALSE])
         IN  IF c.ub
             THEN {IF c.result = INT_MIN THEN INT_MIN ELSE c.result * sign,
                   INT_MAX * sign}
             ELSE {c.result * sign}

(* The text dmini_set_int builds in its buffer for a value that is not
   negative after the negation: the digits, last one first *)
RECURSIVE DigitsOf(_)
DigitsOf(value) ==
    LET c == <<CharOf(48 + CRem(value, 10))>> IN
    IF CDiv(value, 10) > 0 THEN DigitsOf(CDiv(value, 10)) \o c ELSE c

(* -value: undefined for INT_MIN, where the machine wraps to INT_MIN or
   saturates to INT_MAX *)
Negate(value) == IF value = INT_MIN THEN {INT_MIN, INT_MAX} ELSE {-value}

(* The strings dmini_set_int can pass to dmini_set_string *)
IntText(value) ==
    IF value < 0 THEN {<<"-">> \o DigitsOf(v) : v \in Negate(value)}
    ELSE {DigitsOf(value)}

(* The outcomes of dmini_set_int: what dmini_set_string does with a text
   the conversion can build *)
dmini_set_int(secs, ctx, section, key, value, fail) ==
    {dmini_set_string(secs, ctx, section, key, text, fail) :
        text \in IntText(value)}

----------------------------------------------------------------------------
(* The calls of a client: one action per API function.  The arguments are
   drawn from small sets that hold the NULL pointer, the empty string and
   strings that meet and that miss what the context stores. *)

SectionArgs == {NULL, <<"s">>, <<"t">>}
KeyArgs == {NULL, <<"a">>, <<"b">>}
ValueArgs == {NULL, <<"7">>, <<"x">>}
DefaultArgs == {<<"d">>}
IntArgs == {7}
TextArgs == { NULL,
              <<"a", "=", "x", "\n", "[", "t", "]", "\r", "\n", "=", "x", "\n", "b", "=", "7">>,
              <<"[", "s", "\n", "a", "\n", " ", "[", " ", "s", "]", "\n", "a", " ", "=", " ", "x">> }
NoFail == [from |-> 0, once |-> TRUE]
FailSets == {NoFail} \cup [from : 1..MaxAllocs, once : BOOLEAN]

(* The model keeps to contexts of at most MaxSections sections that hold at
   most MaxPairs pairs together *)
RECURSIVE PairCount(_)
PairCount(secs) ==
    IF Len(secs) = 0 THEN 0 ELSE Len(Head(secs).pairs) + PairCount(Tail(secs))

Bounded(secs) == Len(secs) <= MaxSections /\ PairCount(secs) <= MaxPairs

(* A call that is given a NULL context, or NULL for another pointer it
   requires, returns before it looks at its other arguments: one choice of
   them stands for all *)
With(valid, args) == IF valid THEN args ELSE {NULL}

Call(name, ctx, section, key, value, ret) ==
    [name |-> name, ctx |-> ctx, section |-> section, key |-> key,
     value |-> value, ret |-> ret]

Idle == Call("idle", TRUE, NULL, NULL, NULL, DMINI_OK)

(* No file function has run *)
IoIdle == IoNone

(* No dmini_parse_string has been followed *)
NoTrace == [fail |-> NoFail, n |-> 0, steps |-> <<>>]

Mutate(name, ctx, section, key, value, r) ==
    /\ op = Idle
    /\ Bounded(r.sections)
    /\ sections' = r.sections
    /\ pre' = sections
    /\ op' = Call(name, ctx, section, key, value, r.ret)
    /\ UNCHANGED <<parsed, lower>>

Query(name, ctx, section, key, value, ret) ==
    /\ op = Idle
    /\ pre' = sections
    /\ op' = Call(name, ctx, section, key, value, ret)
    /\ UNCHANGED <<sections, parsed, lower>>

SetString ==
    \E ctx \in BOOLEAN, fail \in FailSets :
    \E key \in With(ctx, KeyArgs) :
    \E value \in With(key # NULL, ValueArgs) :
    \E section \in With(value # NULL, SectionArgs) :
        Mutate("set_string", ctx, section, key, value,
               dmini_set_string(sections, ctx, section, key, value, fail))

SetInt ==
    \E ctx \in BOOLEAN, value \in IntArgs, fail \in FailSets :
    \E key \in With(ctx, KeyArgs) :
    \E section \in With(key # NULL, SectionArgs) :
        \E r \in dmini_set_int(sections, ctx, section, key, value, fail) :
            Mutate("set_int", ctx, section, key, value, r)

RemoveSection ==
    \E ctx \in BOOLEAN : \E section \in With(ctx, SectionArgs) :
        Mutate("remove_section", ctx, section, NULL, NULL,
               dmini_remove_section(sections, ctx, section))

RemoveKey ==
    \E ctx \in BOOLEAN :
    \E key \in With(ctx, KeyArgs) :
    \E section \in With(key # NULL, SectionArgs) :
        Mutate("remove_key", ctx, section, key, NULL,
               dmini_remove_key(sections, ctx, section, key))

ParseString ==
    \E ctx \in BOOLEAN, fail \in FailSets : \E data \in With(ctx, TextArgs) :
        Mutate("parse_string", ctx, NULL, NULL, data,
               dmini_parse_string(sections, ctx, data, fail))

GetString ==
    \E ctx \in BOOLEAN, default_value \in DefaultArgs :
    \E key \in With(ctx, KeyArgs) :
    \E section \in With(key # NULL, SectionArgs) :
        Query("get_string", ctx, section, key, default_value,
              dmini_get_string(sections, ctx, section, key, default_value))

GetInt ==
    \E ctx \in BOOLEAN, default_value \in IntArgs :
    \E key \in With(ctx, KeyArgs) :
    \E section \in With(key # NULL, SectionArgs) :
        \E ret \in dmini_get_int(sections, ctx, section, key, default_value) :
            Query("get_int", ctx, section, key, default_value, ret)

HasSection ==
    \E ctx \in BOOLEAN : \E section \in With(ctx, SectionArgs) :
        Query("has_section", ctx, section, NULL, NULL,
              dmini_has_section(sections, ctx, section))

HasKey ==
    \E ctx \in BOOLEAN :
    \E key \in With(ctx, KeyArgs) :
    \E section \in With(key # NULL, SectionArgs) :
        Query("has_key", ctx, section, key, NULL,
              dmini_has_key(sections, ctx, section, key))

(* The client drops the result of its last call *)
Return ==
    /\ op # Idle
    /\ op' = Idle
    /\ pre' = <<>>
    /\ parsed' = <<>>
    /\ io' = IoIdle
    /\ heap' = [heap EXCEPT !.fresh = {}]
    /\ trace' = NoTrace
    /\ UNCHANGED <<sections, disk, refs, held>>

Init ==
    /\ sections = dmini_create
    /\ pre = <<>>
    /\ op = Idle
    /\ parsed = <<>>
    /\ disk = NULL
    /\ io = IoIdle
    /\ refs = H_dmini_create(EmptyHeap, NoFail).refs
    /\ heap = [Settled(EmptyHeap, H_dmini_create(EmptyHeap, NoFail).m) EXCEPT !.fresh = {}]
    /\ held = {}
    /\ trace = NoTrace

Next ==
    \/ SetString
    \/ SetInt
    \/ RemoveSection
    \/ RemoveKey
    \/ ParseString
    \/ GetString
    \/ GetInt
    \/ HasSection
    \/ HasKey
    \/ Return

Spec == Init /\ [][Next]_vars

----------------------------------------------------------------------------
(* Round trips: a client builds a context by set_string and set_int alone,
   no allocation failing, then serializes it and parses the text into a
   fresh context. *)

RtSectionArgs == {NULL, <<"s">>, <<"s", "]">>}
RtKeyArgs == {<<>>, <<"a">>, <<"#", "a">>, <<"a", "=", "b">>}
RtValueArgs == {<<>>, <<"x", " ", "y">>, <<"x", "=", "y">>}
RtIntArgs == {0, -12}

RtSetString ==
    \E section \in RtSectionArgs, key \in RtKeyArgs, value \in RtValueArgs :
        Mutate("set_string", TRUE, section, key, value,
               dmini_set_string(sections, TRUE, section, key, value, NoFail))

RtSetInt ==
    \E section \in RtSectionArgs, key \in RtKeyArgs, value \in RtIntArgs :
        \E r \in dmini_set_int(sections, TRUE, section, key, value, NoFail) :
            Mutate("set_int", TRUE, section, key, value, r)

RoundTrip ==
    /\ op = Idle
    /\ LET text == dmini_generate_string(sections, TRUE, NoFail)
           again == dmini_parse_string(dmini_create, TRUE, text, NoFail)
       IN  /\ parsed' = again.sections
           /\ op' = Call("round_trip", TRUE, NULL, NULL, text, again.ret)
    /\ pre' = sections
    /\ UNCHANGED <<sections, lower>>

NextRT ==
    \/ RtSetString
    \/ RtSetInt
    \/ RoundTrip
    \/ Return

SpecRT == Init /\ [][NextRT]_vars

----------------------------------------------------------------------------
(* Integers: a client stores texts and integers under one key of the global
   section and reads them back as integers, no allocation failing. *)

IntKey == <<"k">>
IntTextArgs == { <<>>, <<"-">>, <<"a", "1">>, <<"0", "0", "7">>, <<"+", "5">>,
                 <<" ", "\t", "-", "4", "2", "x", "9">>,
                 <<"2", "1", "4", "7", "4", "8", "3", "6", "4", "7">>,
                 <<"2", "1", "4", "7", "4", "8", "3", "6", "4", "8">>,
                 <<"-", "2", "1", "4", "7", "4", "8", "3", "6", "4", "8">>,
                 <<"9", "9", "9", "9", "9", "9", "9", "9", "9", "9", "9">> }
IntValueArgs == {0, 7, 10, -1, -120, INT_MAX, -INT_MAX, INT_MIN}
IntDefaultArgs == {0, 7, -1}

IntSetString ==
    \E value \in IntTextArgs :
        Mutate("set_string", TRUE, NULL, IntKey, value,
               dmini_set_string(sections, TRUE, NULL, IntKey, value, NoFail))

IntSetInt ==
    \E value \in IntValueArgs :
        \E r \in dmini_set_int(sections, TRUE, NULL, IntKey, value, NoFail) :
            Mutate("set_int", TRUE, NULL, IntKey, value, r)

IntRemoveKey ==
    Mutate("remove_key", TRUE, NULL, IntKey, NULL,
           dmini_remove_key(sections, TRUE, NULL, IntKey))

IntGetInt ==
    \E default_value \in IntDefaultArgs :
        \E ret \in dmini_get_int(sections, TRUE, NULL, IntKey, default_value) :
            Query("get_int", TRUE, NULL, IntKey, default_value, ret)

NextInt ==
    \/ IntSetString
    \/ IntSetInt
    \/ IntRemoveKey
    \/ IntGetInt
    \/ Return

SpecInt == Init /\ [][NextInt]_vars

----------------------------------------------------------------------------
(* Serialization: a client builds a context of up to MaxGenSections
   sections by set_string, allocations failing or not, and asks for its
   text. *)

GenKeyArgs == {<<"a">>, <<"b">>}
GenValueArgs == {<<>>, <<"x">>}

GenSetString ==
    \E section \in SectionArgs, key \in GenKeyArgs, value \in GenValueArgs,
       fail \in FailSets :
        LET r == dmini_set_string(sections, TRUE, section, key, value, fail) IN
        /\ op = Idle
        /\ Len(r.sections) <= MaxGenSections
        /\ PairCount(r.sections) <= MaxPairs
        /\ sections' = r.sections
        /\ pre' = sections
        /\ op' = Call("set_string", TRUE, section, key, value, r.ret)
        /\ UNCHANGED <<parsed, lower>>

GenerateString ==
    \E ctx \in BOOLEAN, fail \in {NoFail, [from |-> 1, once |-> TRUE]} :
        \E ret \in generate_string_outcomes(sections, ctx, fail) :
            Query("generate_string", ctx, NULL, NULL, NULL, ret)

NextGen ==
    \/ GenSetString
    \/ GenerateString
    \/ Return

SpecGen == Init /\ [][NextGen]_vars

----------------------------------------------------------------------------
(* Parsing: a client parses a text into its context, and the text without
   the decoration (padding, comment and blank lines, long terminators) into
   a copy of the context as it was; no allocation fails. *)

(* The lines joined, seps[i] after the i-th of them but the last *)
RECURSIVE Join(_, _)
Join(lines, seps) ==
    IF Len(lines) = 0 THEN <<>>
    ELSE IF Len(lines) = 1 THEN lines[1]
    ELSE lines[1] \o seps[1] \o Join(Tail(lines), Tail(seps))

Newlines(n) == [i \in 1..n |-> <<"\n">>]

(* op.value is the text parsed, op.key the text without the decoration *)
ParseBoth(name, variant, plain) ==
    LET r == dmini_parse_string(sections, TRUE, variant, NoFail)
        q == dmini_parse_string(sections, TRUE, plain, NoFail)
    IN  /\ op = Idle
        /\ Bounded(r.sections)
        /\ sections' = r.sections
        /\ parsed' = q.sections
        /\ pre' = sections
        /\ op' = Call(name, TRUE, NULL, plain, variant, r.ret)
        /\ UNCHANGED lower

PadArgs == {<<>>, <<" ", "\t">>}
PlainNameArgs == {<<"s">>, <<"s", " ", "t">>}
PlainKeyArgs == {<<"a">>, <<"a", " ", "b">>}
PlainValueArgs == {<<>>, <<"x", " ", "y">>}

(* '[name]' and 'key=value' on two lines, padded at the eight places *)
ParsePadded ==
    \E name \in PlainNameArgs, key \in PlainKeyArgs, value \in PlainValueArgs,
       p \in [1..8 -> PadArgs] :
        ParseBoth("parse_padded",
                  p[1] \o <<"[">> \o p[2] \o name \o p[3] \o <<"]">> \o p[4]
                  \o <<"\n">>
                  \o p[5] \o key \o p[6] \o <<"=">> \o p[7] \o value \o p[8],
                  <<"[">> \o name \o <<"]", "\n">> \o key \o <<"=">> \o value)

LineArgs == {<<"a", "=", "x">>, <<"[", "s", "]">>, <<"b", "=">>}
IgnoredArgs == {<<>>, <<" ", "\t">>, <<";", "a", "=", "y">>,
                <<" ", "#", "[", "t", "]">>}

(* Two lines with nothing, or one ignored line, before, between and after *)
ParseCommented ==
    \E l1 \in LineArgs, l2 \in LineArgs,
       g \in [1..3 -> {<<>>} \cup {<<c>> : c \in IgnoredArgs}] :
        LET lines == g[1] \o <<l1>> \o g[2] \o <<l2>> \o g[3] IN
        ParseBoth("parse_commented",
                  Join(lines, Newlines(Len(lines) - 1)),
                  Join(<<l1, l2>>, Newlines(1)))

TerminatorArgs == {<<"\n">>, <<"\r">>, <<"\r", "\n">>, <<"\n", "\n">>,
                   <<"\n", "\r", "\n">>, <<"\r", "\r", "\r", "\n">>}

(* Three lines joined by runs of terminators, and by '\n' *)
ParseJoined ==
    \E l1 \in LineArgs, l2 \in LineArgs \cup {<<>>}, l3 \in LineArgs,
       t1 \in TerminatorArgs, t2 \in TerminatorArgs :
        ParseBoth("parse_joined",
                  Join(<<l1, l2, l3>>, <<t1, t2>>),
                  Join(<<l1, l2, l3>>, Newlines(2)))

NextPadded ==
    \/ ParsePadded
    \/ Return

SpecPadded == Init /\ [][NextPadded]_vars

NextCommented ==
    \/ ParseCommented
    \/ Return

SpecCommented == Init /\ [][NextCommented]_vars

NextJoined ==
    \/ ParseJoined
    \/ Return

SpecJoined == Init /\ [][NextJoined]_vars

----------------------------------------------------------------------------
(* Files: a client builds a context, writes a file of its own, parses the
   file and generates it; opening, reading, writing and allocating may
   fail. *)

FileNameArgs == {NULL, <<"f">>}
FileTextArgs == {<<>>, <<"a", "=", "x", "\n", "[", "s", "]", "\n", "a", "=", "y">>}
FileKeyArgs == {<<"a">>}
FileValueArgs == {<<"x">>}
FileSectionArgs == {NULL, <<"s">>}
FileFailSets == {NoFail, [from |-> 1, once |-> TRUE], [from |-> 2, once |-> TRUE],
                 [from |-> 3, once |-> FALSE]}
MaxLost == 1

FileSetString ==
    \E section \in FileSectionArgs, key \in FileKeyArgs, value \in FileValueArgs,
       fail \in FileFailSets :
        Mutate("set_string", TRUE, section, key, value,
               dmini_set_string(sections, TRUE, section, key, value, fail))

(* The client writes a text to the file by the file functions *)
WriteFile ==
    /\ op = Idle
    /\ \E text \in FileTextArgs : disk' = text
    /\ UNCHANGED <<sections, pre, op, parsed, io, store, trace>>

ParseFile ==
    \E ctx \in BOOLEAN, fail \in FileFailSets :
    \E filename \in With(ctx, FileNameArgs) :
    \E opens \in IF filename # NULL /\ disk # NULL THEN BOOLEAN ELSE {FALSE} :
    \E bytes_read \in IF opens THEN 0..Len(disk) ELSE {0} :
        LET r == dmini_parse_file(sections, ctx, filename,
                                  IF opens THEN disk ELSE NULL,
                                  bytes_read, fail)
        IN  /\ op = Idle
            /\ Bounded(r.sections)
            /\ sections' = r.sections
            /\ pre' = sections
            /\ op' = Call("parse_file", ctx, NULL, NULL, filename, r.ret)
            /\ io' = r.io
            /\ UNCHANGED <<parsed, disk, store, trace>>

(* A call that stopped in the library: the process does not go on *)
Stopped(name, ctx, filename) == Call(name, ctx, NULL, <<"fault">>, filename, DMINI_OK)

GenerateFile ==
    \E ctx \in BOOLEAN, fail \in {NoFail, [from |-> 1, once |-> TRUE]} :
    \E filename \in With(ctx, FileNameArgs) :
    \E opens \in IF filename # NULL THEN BOOLEAN ELSE {FALSE} :
    \E lost \in IF opens THEN 0..MaxLost ELSE {0} :
    \E r \in dmini_generate_file(sections, ctx, filename, disk, opens, lost, fail) :
        /\ op = Idle
        /\ pre' = sections
        /\ op' = IF r.fault THEN Stopped("generate_file", ctx, filename)
                 ELSE Call("generate_file", ctx, NULL, NULL, filename, r.ret)
        /\ io' = r.io
        /\ disk' = r.disk
        /\ UNCHANGED <<sections, parsed, store, trace>>

(* The process goes on after a call that returned *)
FileReturn ==
    /\ op.key # <<"fault">>
    /\ Return

NextFile ==
    \/ FileSetString
    \/ WriteFile
    \/ ParseFile
    \/ GenerateFile
    \/ FileReturn

SpecFile == Init /\ [][NextFile]_vars

----------------------------------------------------------------------------

(* The heap: a client creates and destroys the context, sets, removes,
   parses and generates, keeps the pointers that dmini_get_string and
   dmini_generate_string return, and frees the texts it was given.
   Allocations fail as the oracle says. A client does not use the handle
   of a context it has destroyed. *)

HeapSectionArgs == {NULL, <<"s">>}
HeapKeyArgs == {<<"a">>}
HeapValueArgs == {<<"x">>}
HeapTextArgs == { <<"[", "s", "]", "\n", "a", "=", "x">>,
                  <<"a", "=", "x">> }
HeapFailSets == {NoFail, [from |-> 1, once |-> TRUE], [from |-> 2, once |-> TRUE],
                 [from |-> 3, once |-> TRUE], [from |-> 2, once |-> FALSE]}
MaxHeld == 1

(* The pointers the client holds after a call that freed the blocks of
   m.freed and returned the pointers of hold. A pointer to a block that was
   freed is stale and keeps no address: the block may be allocated again. *)
Holding(m, hold) ==
    {IF p.stale \/ p.at \in m.freed
     THEN [at |-> 0, kind |-> p.kind, stale |-> TRUE] ELSE p : p \in held} \cup hold

(* The library and the client compare a pointer with NULL and with nothing
   else, so the addresses count up to renaming. The states are kept with
   the blocks numbered in the order in which the context reaches them,
   followed by the blocks it does not reach. *)
NonNull(at) == at # 0

PairOrder(pair) == SelectSeq(<<pair.at, pair.key, pair.value>>, NonNull)

SectionOrder(section) ==
    SelectSeq(<<section.at, section.name>>, NonNull)
    \o Concat([j \in 1..Len(section.pairs) |-> PairOrder(section.pairs[j])])

ContextOrder(r) ==
    SelectSeq(<<r.ctx>>, NonNull)
    \o Concat([i \in 1..Len(r.secs) |-> SectionOrder(r.secs[i])])

RECURSIVE Ascending(_)
Ascending(S) ==
    IF S = {} THEN <<>>
    ELSE LET a == CHOOSE x \in S : \A y \in S : x <= y IN <<a>> \o Ascending(S \ {a})

BlockOrder(r, live) ==
    ContextOrder(r) \o Ascending(live \ Range(ContextOrder(r)))

(* The number of a block in the order, a block out of it keeping its own *)
Renamed(order, at) ==
    IF \E i \in 1..Len(order) : order[i] = at
    THEN CHOOSE i \in 1..Len(order) :
            order[i] = at /\ \A j \in 1..(i - 1) : order[j] # at
    ELSE at

RenamedRefs(order, r) ==
    [ctx |-> Renamed(order, r.ctx),
     secs |-> [i \in 1..Len(r.secs) |->
                 [at |-> Renamed(order, r.secs[i].at),
                  name |-> Renamed(order, r.secs[i].name),
                  pairs |-> [j \in 1..Len(r.secs[i].pairs) |->
                               [at |-> Renamed(order, r.secs[i].pairs[j].at),
                                key |-> Renamed(order, r.secs[i].pairs[j].key),
                                value |-> Renamed(order, r.secs[i].pairs[j].value)]]]]]

RenamedHeap(order, h) ==
    [live |-> {Renamed(order, a) : a \in h.live}, bad |-> h.bad,
     fresh |-> {Renamed(order, a) : a \in h.fresh}]

RenamedHeld(order, hd) == {[p EXCEPT !.at = Renamed(order, @)] : p \in hd}

(* The heap, the addresses and the pointers held after a step *)
Numbered(r, h, hd) ==
    LET order == BlockOrder(r, h.live) IN
    /\ refs' = RenamedRefs(order, r)
    /\ heap' = RenamedHeap(order, h)
    /\ held' = RenamedHeld(order, hd)

Pointer(at, kind) ==
    IF at = 0 THEN {} ELSE {[at |-> at, kind |-> kind, stale |-> FALSE]}

HeapCall(name, ctx, section, key, value, ret, secs, r, hold) ==
    /\ op = Idle
    /\ Bounded(secs)
    /\ Cardinality(Holding(r.m, hold)) <= MaxHeld
    /\ sections' = secs
    /\ pre' = sections
    /\ op' = Call(name, ctx, section, key, value, ret)
    /\ Numbered(r.refs, Settled(heap, r.m), Holding(r.m, hold))
    /\ UNCHANGED <<parsed, disk, io, trace>>

HeapCreate ==
    /\ refs.ctx = 0
    /\ \E fail \in HeapFailSets :
       \E r \in {H_dmini_create(heap, fail)} :
        HeapCall("create", r.refs.ctx # 0, NULL, NULL, NULL, DMINI_OK,
                 IF r.refs.ctx # 0 THEN dmini_create ELSE <<>>, r, {})

HeapDestroy ==
    /\ refs.ctx # 0
    /\ \E r \in {H_dmini_destroy(refs, TRUE, heap)} :
        HeapCall("destroy", TRUE, NULL, NULL, NULL, DMINI_OK, <<>>, r, {})

HeapSetString ==
    /\ refs.ctx # 0
    /\ \E section \in HeapSectionArgs, key \in HeapKeyArgs, value \in HeapValueArgs,
          fail \in HeapFailSets :
       \E v \in {dmini_set_string(sections, TRUE, section, key, value, fail)} :
       \E r \in {H_dmini_set_string(refs, sections, TRUE, section, key, value,
                                    heap, fail)} :
        HeapCall("set_string", TRUE, section, key, value, v.ret, v.sections, r, {})

HeapRemoveKey ==
    /\ refs.ctx # 0
    /\ \E section \in HeapSectionArgs, key \in HeapKeyArgs :
       \E v \in {dmini_remove_key(sections, TRUE, section, key)} :
       \E r \in {H_dmini_remove_key(refs, sections, TRUE, section, key, heap)} :
        HeapCall("remove_key", TRUE, section, key, NULL, v.ret, v.sections, r, {})

HeapRemoveSection ==
    /\ refs.ctx # 0
    /\ \E section \in HeapSectionArgs :
       \E v \in {dmini_remove_section(sections, TRUE, section)} :
       \E r \in {H_dmini_remove_section(refs, sections, TRUE, section, heap)} :
        HeapCall("remove_section", TRUE, section, NULL, NULL, v.ret, v.sections, r, {})

HeapParseString ==
    /\ refs.ctx # 0
    /\ \E data \in HeapTextArgs, fail \in HeapFailSets :
       \E v \in {dmini_parse_string(sections, TRUE, data, fail)} :
       \E r \in {H_dmini_parse_string(refs, sections, TRUE, data, heap, fail)} :
        HeapCall("parse_string", TRUE, NULL, NULL, data, v.ret, v.sections, r, {})

(* The file holds one of the texts; the open may fail and the read may
   return nothing *)
HeapParseFile ==
    /\ refs.ctx # 0
    /\ \E text \in HeapTextArgs, fail \in HeapFailSets, opens \in BOOLEAN :
       \E bytes_read \in IF opens THEN {0, Len(text)} ELSE {0} :
       \E file \in {IF opens THEN text ELSE NULL} :
       \E v \in {dmini_parse_file(sections, TRUE, <<"f">>, file, bytes_read, fail)} :
       \E r \in {H_dmini_parse_file(refs, sections, TRUE, <<"f">>, file, bytes_read,
                                    heap, fail)} :
        HeapCall("parse_file", TRUE, NULL, NULL, <<"f">>, v.ret, v.sections, r, {})

(* The client keeps the pointer it is given when the key is found *)
HeapGetString ==
    /\ refs.ctx # 0
    /\ \E section \in HeapSectionArgs, key \in HeapKeyArgs, default_value \in DefaultArgs :
       \E at \in {H_dmini_get_string(refs, sections, TRUE, section, key)} :
        HeapCall("get_string", TRUE, section, key, default_value,
                 dmini_get_string(sections, TRUE, section, key, default_value),
                 sections, [refs |-> refs, m |-> Entered(heap)], Pointer(at, "value"))

(* The client keeps the text it is given; a call that reads a NULL value
   may stop in strlen *)
HeapGenerateString ==
    /\ refs.ctx # 0
    /\ \E fail \in {NoFail, [from |-> 1, once |-> TRUE]} :
       \E text \in generate_string_outcomes(sections, TRUE, fail) :
       \E g \in {H_dmini_generate_string(TRUE, heap, fail)} :
        IF text = Fault
        THEN HeapCall("generate_string", TRUE, NULL, NULL, NULL, text, sections,
                      [refs |-> refs, m |-> Entered(heap)], {})
        ELSE HeapCall("generate_string", TRUE, NULL, NULL, NULL, text, sections,
                      [refs |-> refs, m |-> g.m], Pointer(g.at, "text"))

HeapGenerateFile ==
    /\ refs.ctx # 0
    /\ \E fail \in {NoFail, [from |-> 1, once |-> TRUE]}, opens \in BOOLEAN :
       \E v \in dmini_generate_file(sections, TRUE, <<"f">>, NULL, opens, 0, fail) :
       \E m \in {H_dmini_generate_file(TRUE, <<"f">>, heap, fail)} :
        IF v.fault
        THEN HeapCall("generate_file", TRUE, NULL, <<"fault">>, <<"f">>, DMINI_OK,
                      sections, [refs |-> refs, m |-> Entered(heap)], {})
        ELSE HeapCall("generate_file", TRUE, NULL, NULL, <<"f">>, v.ret, sections,
                      [refs |-> refs, m |-> m], {})

(* The client frees a text dmini_generate_string gave it *)
HeapFreeText ==
    /\ op = Idle
    /\ \E p \in held :
        /\ p.kind = "text"
        /\ Numbered(refs, Settled(heap, H_Free(Entered(heap), p.at)), held \ {p})
    /\ UNCHANGED <<sections, pre, op, parsed, disk, io, trace>>

(* The client forgets a pointer dmini_get_string gave it *)
HeapForget ==
    /\ op = Idle
    /\ \E p \in held :
        /\ p.kind = "value"
        /\ held' = held \ {p}
    /\ UNCHANGED <<sections, pre, op, parsed, disk, io, refs, heap, trace>>

(* The process goes on after a call that returned *)
HeapReturn ==
    /\ ~(op.name = "generate_string" /\ op.ret = Fault)
    /\ op.key # <<"fault">>
    /\ Return

NextHeap ==
    \/ HeapCreate
    \/ HeapDestroy
    \/ HeapSetString
    \/ HeapRemoveKey
    \/ HeapRemoveSection
    \/ HeapParseString
    \/ HeapParseFile
    \/ HeapGetString
    \/ HeapGenerateString
    \/ HeapGenerateFile
    \/ HeapFreeText
    \/ HeapForget
    \/ HeapReturn

SpecHeap == Init /\ [][NextHeap]_vars

----------------------------------------------------------------------------

(* The parser, line by line: a client sets a key, then parses texts of up
   to three lines that open sections, store keys and are malformed; the
   allocations of the parser may fail. *)

TraceLineArgs == { <<"[", "s", "]">>, <<"a", "=", "x">>, <<"b", "=", "x">>,
                   <<"[", "s">>, <<"[", "s", "=", "x">>, <<"a">>, <<"=", "x">> }
TraceFailSets == {NoFail, [from |-> 1, once |-> TRUE], [from |-> 3, once |-> TRUE]}
MaxLines == 3

TraceTexts ==
    {NULL, <<>>}
    \cup UNION {{Join(lines, Newlines(k - 1)) : lines \in [1..k -> TraceLineArgs]} :
                k \in 1..MaxLines}

TraceSetString ==
    \E section \in {NULL, <<"s">>} :
        Mutate("set_string", TRUE, section, <<"a">>, <<"x">>,
               dmini_set_string(sections, TRUE, section, <<"a">>, <<"x">>, NoFail))

TraceRemoveSection ==
    Mutate("remove_section", TRUE, <<"s">>, NULL, NULL,
           dmini_remove_section(sections, TRUE, <<"s">>))

ParseTraced ==
    /\ op = Idle
    /\ \E ctx \in BOOLEAN, fail \in TraceFailSets :
       \E data \in IF ctx THEN TraceTexts ELSE {NULL, <<>>} :
       \E r \in {dmini_parse_string(sections, ctx, data, fail)} :
        /\ Bounded(r.sections)
        /\ sections' = r.sections
        /\ pre' = sections
        /\ op' = Call("parse_string", ctx, NULL, NULL, data, r.ret)
        /\ trace' = parse_string_trace(sections, ctx, data, fail)
        /\ UNCHANGED <<parsed, disk, io, store>>

NextTrace ==
    \/ TraceSetString
    \/ TraceRemoveSection
    \/ ParseTraced
    \/ Return

SpecTrace == Init /\ [][NextTrace]_vars

----------------------------------------------------------------------------

(* Order: a client adds sections and keys by set_string, set_int and
   parse_string, removes them, adds them again and generates the text. *)

OrderSectionArgs == {NULL, <<"s">>, <<"t">>}
OrderKeyArgs == {<<"a">>, <<"b">>}
OrderTextArgs == { <<"[", "t", "]", "\n", "b", "=", "x">>,
                   <<"b", "=", "x", "\n", "[", "s", "]", "\n", "a", "=", "x">> }
OrderFailSets == {NoFail, [from |-> 2, once |-> TRUE]}

OrderCall(name, ctx, section, key, value, r) ==
    /\ Len(r.sections) <= MaxGenSections
    /\ PairCount(r.sections) <= MaxPairs
    /\ sections' = r.sections
    /\ pre' = sections
    /\ op' = Call(name, ctx, section, key, value, r.ret)
    /\ UNCHANGED <<parsed, lower>>

OrderSetString ==
    /\ op = Idle
    /\ \E section \in OrderSectionArgs, key \in OrderKeyArgs, fail \in OrderFailSets :
       \E r \in {dmini_set_string(sections, TRUE, section, key, <<"x">>, fail)} :
        OrderCall("set_string", TRUE, section, key, <<"x">>, r)

OrderSetInt ==
    /\ op = Idle
    /\ \E section \in OrderSectionArgs, key \in OrderKeyArgs :
       \E r \in dmini_set_int(sections, TRUE, section, key, 7, NoFail) :
        OrderCall("set_int", TRUE, section, key, 7, r)

OrderParseString ==
    /\ op = Idle
    /\ \E data \in OrderTextArgs, fail \in OrderFailSets :
       \E r \in {dmini_parse_string(sections, TRUE, data, fail)} :
        OrderCall("parse_string", TRUE, NULL, NULL, data, r)

OrderRemoveKey ==
    /\ op = Idle
    /\ \E section \in OrderSectionArgs, key \in OrderKeyArgs :
       \E r \in {dmini_remove_key(sections, TRUE, section, key)} :
        OrderCall("remove_key", TRUE, section, key, NULL, r)

OrderRemoveSection ==
    /\ op = Idle
    /\ \E section \in OrderSectionArgs :
       \E r \in {dmini_remove_section(sections, TRUE, section)} :
        OrderCall("remove_section", TRUE, section, NULL, NULL, r)

NextOrder ==
    \/ OrderSetString
    \/ OrderSetInt
    \/ OrderParseString
    \/ OrderRemoveKey
    \/ OrderRemoveSection
    \/ GenerateString
    \/ Return

SpecOrder == Init /\ [][NextOrder]_vars

----------------------------------------------------------------------------

(* Reading: a client builds a context and asks for strings, integers,
   sections, keys, the text and the file. *)

(* The context after a lookup that made a section of the name when it
   found none *)
find_section_leaves_created(secs, section_name) ==
    get_or_create_section(secs, section_name, 0, NoFail).sections

(* The context after find_section and find_pair: they walk the lists,
   compare names and keys and return a node or NULL, and assign to no
   node *)
find_section_leaves(secs, section_name) == secs

(* The context after the two passes of dmini_generate_string: they read
   the names, keys and values and write to the buffer alone *)
generate_string_leaves(secs) == secs

ReadSectionArgs == {NULL, <<"s">>, <<"t">>}
ReadKeyArgs == {<<"a">>, <<"b">>}
ReadValueArgs == {<<"7">>, <<"x">>}

ReadCall(name, ctx, section, key, value, ret, after) ==
    /\ sections' = after
    /\ pre' = sections
    /\ op' = Call(name, ctx, section, key, value, ret)
    /\ UNCHANGED <<parsed, lower>>

ReadSetString ==
    /\ op = Idle
    /\ \E section \in ReadSectionArgs, key \in ReadKeyArgs, value \in ReadValueArgs,
          fail \in FailSets :
       \E r \in {dmini_set_string(sections, TRUE, section, key, value, fail)} :
        /\ Bounded(r.sections)
        /\ ReadCall("set_string", TRUE, section, key, value, r.ret, r.sections)

ReadGetString ==
    /\ op = Idle
    /\ \E ctx \in BOOLEAN, default_value \in DefaultArgs :
       \E key \in With(ctx, KeyArgs) :
       \E section \in With(key # NULL, ReadSectionArgs) :
        ReadCall("get_string", ctx, section, key, default_value,
                 dmini_get_string(sections, ctx, section, key, default_value),
                 IF ctx /\ key # NULL THEN find_section_leaves(sections, section)
                 ELSE sections)

ReadGetInt ==
    /\ op = Idle
    /\ \E ctx \in BOOLEAN, default_value \in IntArgs :
       \E key \in With(ctx, KeyArgs) :
       \E section \in With(key # NULL, ReadSectionArgs) :
       \E ret \in dmini_get_int(sections, ctx, section, key, default_value) :
        ReadCall("get_int", ctx, section, key, default_value, ret,
                 IF ctx /\ key # NULL THEN find_section_leaves(sections, section)
                 ELSE sections)

ReadHasSection ==
    /\ op = Idle
    /\ \E ctx \in BOOLEAN : \E section \in With(ctx, ReadSectionArgs) :
        ReadCall("has_section", ctx, section, NULL, NULL,
                 dmini_has_section(sections, ctx, section),
                 IF ctx THEN find_section_leaves(sections, section) ELSE sections)

ReadHasKey ==
    /\ op = Idle
    /\ \E ctx \in BOOLEAN :
       \E key \in With(ctx, KeyArgs) :
       \E section \in With(key # NULL, ReadSectionArgs) :
        ReadCall("has_key", ctx, section, key, NULL,
                 dmini_has_key(sections, ctx, section, key),
                 IF ctx /\ key # NULL THEN find_section_leaves(sections, section)
                 ELSE sections)

ReadGenerateString ==
    /\ op = Idle
    /\ \E ctx \in BOOLEAN, fail \in {NoFail, [from |-> 1, once |-> TRUE]} :
       \E ret \in generate_string_outcomes(sections, ctx, fail) :
        ReadCall("generate_string", ctx, NULL, NULL, NULL, ret,
                 IF ctx THEN generate_string_leaves(sections) ELSE sections)

ReadGenerateFile ==
    /\ op = Idle
    /\ \E ctx \in BOOLEAN, fail \in {NoFail, [from |-> 1, once |-> TRUE]} :
       \E filename \in With(ctx, FileNameArgs) :
       \E opens \in IF filename # NULL THEN BOOLEAN ELSE {FALSE} :
       \E r \in dmini_generate_file(sections, ctx, filename, disk, opens, 0, fail) :
        /\ sections' = IF ctx /\ filename # NULL THEN generate_string_leaves(sections)
                       ELSE sections
        /\ pre' = sections
        /\ op' = IF r.fault THEN Stopped("generate_file", ctx, filename)
                 ELSE Call("generate_file", ctx, NULL, NULL, filename, r.ret)
        /\ io' = r.io
        /\ disk' = r.disk
        /\ UNCHANGED <<parsed, store, trace>>

NextRead ==
    \/ ReadSetString
    \/ ReadGetString
    \/ ReadGetInt
    \/ ReadHasSection
    \/ ReadHasKey
    \/ ReadGenerateString
    \/ ReadGenerateFile
    \/ Return

SpecRead == Init /\ [][NextRead]_vars

----------------------------------------------------------------------------

(* Properties of the model (section 3 of the specification) *)

NamelessCount(secs) == Cardinality({i \in 1..Len(secs) : secs[i].name = NULL})

(* C2: in every reachable state no two sections have the same name, at most
   one section is nameless, and no section holds two pairs with the same
   key. *)
C2_Uniqueness ==
    /\ \A i, j \in 1..Len(sections) :
          i # j => sections[i].name # sections[j].name
    /\ NamelessCount(sections) <= 1
    /\ \A i \in 1..Len(sections) :
          \A j, k \in 1..Len(sections[i].pairs) :
             j # k => sections[i].pairs[j].key # sections[i].pairs[k].key

(* C4: after any sequence of operations the context holds at least one
   section, its first section is the nameless global section, so that
   has_section(ctx, NULL) is 1 and the pairs of the global section are what
   the serialized text starts with; remove_section never removes a nameless
   section. *)
C4_GlobalSection ==
    /\ Len(sections) >= 1
    /\ sections[1].name = NULL
    /\ dmini_has_section(sections, TRUE, NULL) = 1
    /\ ~HasNullValue(sections) =>
          LET text == dmini_generate_string(sections, TRUE, NoFail)
              first == Concat([j \in 1..Len(sections[1].pairs) |->
                                  PairText(sections[1].pairs[j])])
          IN  SubSeq(text, 1, Len(first)) = first
    /\ op.name = "remove_section" =>
          /\ NamelessCount(sections) = NamelessCount(pre)
          /\ sections[1] = pre[1]

(* A successful remove_section that left a global section holding a pair *)
C4_Witness ==
    /\ op.name = "remove_section"
    /\ op.ret = DMINI_OK
    /\ Len(sections) < Len(pre)
    /\ Len(sections[1].pairs) > 0

(* The keys of a section, in list order *)
KeysOf(section) == [j \in 1..Len(section.pairs) |-> section.pairs[j].key]

(* C5: when set_string(ctx, s, k, b) returns OK on a context where
   has_key(ctx, s, k) was 1, get_string(ctx, s, k, d) returns b afterwards,
   the section holds exactly one key k, the sections and the keys of every
   section are the same in number and order as before, and the value of
   every other key is unchanged. *)
C5_OverwriteInPlace ==
    (/\ op.name = "set_string"
     /\ op.ret = DMINI_OK
     /\ dmini_has_key(pre, op.ctx, op.section, op.key) = 1)
    => /\ \A d \in DefaultArgs :
             dmini_get_string(sections, TRUE, op.section, op.key, d) = op.value
       /\ Len(sections) = Len(pre)
       /\ \A i \in 1..Len(pre) :
             /\ sections[i].name = pre[i].name
             /\ KeysOf(sections[i]) = KeysOf(pre[i])
             /\ \A j \in 1..Len(pre[i].pairs) :
                   \/ sections[i].pairs[j].value = pre[i].pairs[j].value
                   \/ /\ pre[i].name = op.section
                      /\ pre[i].pairs[j].key = op.key
                      /\ sections[i].pairs[j].value = op.value
       /\ \E i \in 1..Len(sections) :
             /\ sections[i].name = op.section
             /\ Cardinality({j \in 1..Len(sections[i].pairs) :
                               sections[i].pairs[j].key = op.key}) = 1

(* set_string replaced the value of the first of the two keys of a section *)
C5_Witness ==
    /\ op.name = "set_string"
    /\ op.ret = DMINI_OK
    /\ \E i \in 1..Len(pre) :
          /\ pre[i].name = op.section
          /\ Len(pre[i].pairs) = 2
          /\ pre[i].pairs[1].key = op.key
          /\ pre[i].pairs[1].value # op.value
          /\ sections[i].pairs[1].value = op.value

(* C6: calling set_string(ctx, s, k, v) again right after a call that
   returned OK leaves the model as the first call left it. *)
C6_Idempotent ==
    (op.name = "set_string" /\ op.ret = DMINI_OK)
    => \A fail \in FailSets :
          LET again == dmini_set_string(sections, op.ctx, op.section, op.key,
                                         op.value, fail)
          IN  again.ret = DMINI_OK => again.sections = sections

(* The section a name stands for: the first one of that name (the nameless
   one is the global section), and the pairs of it that have key k *)
SectionNamed(secs, s) ==
    {i \in 1..Len(secs) :
        secs[i].name = s /\ \A h \in 1..(i - 1) : secs[h].name # s}
PairsKeyed(secs, s, k) ==
    {ij \in SectionNamed(secs, s) \X (1..MaxPairs) :
        ij[2] <= Len(secs[ij[1]].pairs) /\ secs[ij[1]].pairs[ij[2]].key = k}

(* C7: get_string returns the value stored for key k in section s, a string,
   when the context and the key argument are given and both exist, and the
   caller's default otherwise; has_section and has_key return 1 exactly when
   the section, the key in that section, exists. *)
C7_ReadAccessors ==
    /\ op.name = "get_string" =>
          IF op.ctx /\ op.key # NULL /\ PairsKeyed(sections, op.section, op.key) # {}
          THEN /\ op.ret # NULL
               /\ \E ij \in PairsKeyed(sections, op.section, op.key) :
                     op.ret = sections[ij[1]].pairs[ij[2]].value
          ELSE op.ret = op.value
    /\ op.name = "has_section" =>
          op.ret = IF op.ctx /\ SectionNamed(sections, op.section) # {} THEN 1 ELSE 0
    /\ op.name = "has_key" =>
          op.ret = IF op.ctx /\ op.key # NULL
                       /\ PairsKeyed(sections, op.section, op.key) # {}
                   THEN 1 ELSE 0

(* C10: remove_key on a key for which has_key is 1 returns OK and unlinks
   one pair with that key from a section of that name, all else staying as
   it was, and has_key is 0 afterwards; remove_section on the name of an
   existing section returns OK and unlinks one section of that name, all
   else staying as it was, and has_section and has_key are 0 for that name
   afterwards. *)
C10_Removal ==
    /\ (op.name = "remove_key" /\ dmini_has_key(pre, op.ctx, op.section, op.key) = 1)
       => /\ op.ret = DMINI_OK
          /\ dmini_has_key(sections, TRUE, op.section, op.key) = 0
          /\ \E i \in 1..Len(pre) : \E j \in 1..Len(pre[i].pairs) :
                /\ pre[i].name = op.section
                /\ pre[i].pairs[j].key = op.key
                /\ sections = [pre EXCEPT ![i].pairs =
                                  SubSeq(@, 1, j - 1) \o SubSeq(@, j + 1, Len(@))]
    /\ (/\ op.name = "remove_section"
        /\ op.ctx
        /\ op.section # NULL
        /\ dmini_has_section(pre, TRUE, op.section) = 1)
       => /\ op.ret = DMINI_OK
          /\ dmini_has_section(sections, TRUE, op.section) = 0
          /\ \A k \in KeyArgs : dmini_has_key(sections, TRUE, op.section, k) = 0
          /\ \E i \in 1..Len(pre) :
                /\ pre[i].name = op.section
                /\ sections = SubSeq(pre, 1, i - 1) \o SubSeq(pre, i + 1, Len(pre))

(* remove_key unlinked the first of the two keys of a section *)
C10_Witness ==
    /\ op.name = "remove_key"
    /\ op.ret = DMINI_OK
    /\ \E i \in 1..Len(pre) :
          /\ Len(pre[i].pairs) = 2
          /\ pre[i].pairs[1].key = op.key
          /\ sections[i].pairs = <<pre[i].pairs[2]>>

(* A key or value the round-trip property speaks of: no line break in it
   and no whitespace at either end *)
Plain(str) ==
    /\ "\n" \notin Range(str)
    /\ "\r" \notin Range(str)
    /\ str # <<>> => ~IsSpace(str[1]) /\ ~IsSpace(str[Len(str)])

(* C1: for a context built on a fresh one by set_string and set_int alone,
   with plain keys and values and no '=' in a value, parsing the generated
   text into a fresh context gives the same sections, keys and values in the
   same order. *)
C1_RoundTrip ==
    (/\ op.name = "round_trip"
     /\ \A i \in 1..Len(sections) : \A j \in 1..Len(sections[i].pairs) :
           /\ Plain(sections[i].pairs[j].key)
           /\ Plain(sections[i].pairs[j].value)
           /\ "=" \notin Range(sections[i].pairs[j].value))
    => parsed = sections

(* C3: in every reachable state the key of every pair is a non-empty
   string. *)
C3_NonEmptyKeys ==
    \A i \in 1..Len(sections) : \A j \in 1..Len(sections[i].pairs) :
        sections[i].pairs[j].key # <<>>

(* The integer a text denotes: sign * n for the digit run from p on, as long
   as it is an int *)
RECURSIVE DecimalRun(_, _, _, _)
DecimalRun(value, p, sign, acc) ==
    IF p > Len(value) \/ value[p] \notin Digits \/ ~acc.fits
    THEN acc
    ELSE LET d == DigitOf(value[p])
             room == IF sign = 1
                     THEN acc.val <= (INT_MAX - d) \div 10
                     ELSE acc.val >= -((IF d = 0 THEN INT_MAX
                                                 ELSE INT_MAX - d + 1) \div 10)
         IN  DecimalRun(value, p + 1, sign,
                        IF room THEN [fits |-> TRUE, val |-> acc.val * 10 + sign * d]
                                ELSE [fits |-> FALSE, val |-> 0])

(* Optional spaces and tabs, an optional sign, then the longest digit run *)
DecimalOf(value) ==
    LET p == Scan(value, 1, Range(value) \ {" ", "\t"})
        signed == p <= Len(value) /\ value[p] \in {"+", "-"}
        sign == IF signed /\ value[p] = "-" THEN -1 ELSE 1
    IN  DecimalRun(value, IF signed THEN p + 1 ELSE p, sign,
                   [fits |-> TRUE, val |-> 0])

(* C8: get_int returns the default when the lookup of the key misses, and
   when the key exists it returns sign * n for the optional blanks, optional
   sign and longest digit run its value starts with. *)
C8_GetIntDecoding ==
    op.name = "get_int" =>
        IF op.ctx /\ op.key # NULL /\ PairsKeyed(sections, op.section, op.key) # {}
        THEN \E ij \in PairsKeyed(sections, op.section, op.key) :
                LET value == sections[ij[1]].pairs[ij[2]].value
                IN  /\ value # NULL
                    /\ DecimalOf(value).fits
                    /\ op.ret = DecimalOf(value).val
        ELSE op.ret = op.value

(* The shortest decimal text of v: digits only, no leading zero, '-' before
   a negative number and no '+' *)
MinimalDecimal(str, v) ==
    LET digits == IF v < 0 /\ str # <<>> THEN Tail(str) ELSE str
    IN  /\ str # NULL
        /\ v < 0 => str # <<>> /\ str[1] = "-"
        /\ digits # <<>>
        /\ Range(digits) \subseteq Digits
        /\ Len(digits) > 1 => digits[1] # "0"
        /\ DecimalOf(str) = [fits |-> TRUE, val |-> v]

(* C9: after set_int(ctx, s, k, v) returned OK, for every int v, the stored
   string is the shortest decimal text of v and get_int(ctx, s, k, d)
   returns v whatever d is. *)
C9_SetIntRoundTrip ==
    (op.name = "set_int" /\ op.ret = DMINI_OK)
    => /\ MinimalDecimal(dmini_get_string(sections, TRUE, op.section, op.key, NULL),
                         op.value)
       /\ \A d \in IntDefaultArgs :
             dmini_get_int(sections, TRUE, op.section, op.key, d) = {op.value}

(* C11: remove_key returns NotFound when no section of that name exists or
   the key is not in it, remove_section returns NotFound when no named
   section matches, and in both cases the sections, keys and values are as
   they were before the call. *)
C11_RemoveMiss ==
    /\ (/\ op.name = "remove_key"
        /\ op.ctx
        /\ op.key # NULL
        /\ PairsKeyed(pre, op.section, op.key) = {})
       => op.ret = DMINI_ERR_NOT_FOUND /\ sections = pre
    /\ (/\ op.name = "remove_section"
        /\ op.ctx
        /\ op.section # NULL
        /\ \A i \in 1..Len(pre) : pre[i].name # op.section)
       => op.ret = DMINI_ERR_NOT_FOUND /\ sections = pre

(* remove_key missed on a section that does not exist, in a context that
   holds a pair with that key in another section *)
C11_Witness ==
    /\ op.name = "remove_key"
    /\ op.ret = DMINI_ERR_NOT_FOUND
    /\ SectionNamed(pre, op.section) = {}
    /\ \E i \in 1..Len(pre) : \E j \in 1..Len(pre[i].pairs) :
          pre[i].pairs[j].key = op.key

(* The text C12 describes, section by section *)
RECURSIVE Lines(_)
Lines(pairs) ==
    IF pairs = <<>> THEN <<>>
    ELSE Head(pairs).key \o <<"=">> \o Head(pairs).value \o <<"\n">>
         \o Lines(Tail(pairs))

RECURSIVE Rendering(_)
Rendering(secs) ==
    IF secs = <<>> THEN <<>>
    ELSE LET named == Head(secs).name # NULL IN
         (IF named THEN <<"[">> \o Head(secs).name \o <<"]", "\n">> ELSE <<>>)
         \o Lines(Head(secs).pairs)
         \o (IF named /\ Tail(secs) # <<>> THEN <<"\n">> ELSE <<>>)
         \o Rendering(Tail(secs))

(* C12: for every model, the text generate_string returns is the headers
   '[name]\n' of the named sections, each followed by the lines
   'key=value\n' of its pairs and, when the section is named and another
   follows, by one '\n', in stored order; two calls in the same state return
   the same bytes. *)
C12_OutputFormat ==
    (op.name = "generate_string" /\ op.ctx)
    => /\ op.ret # NULL => op.ret # Fault /\ op.ret = Rendering(sections)
       /\ Cardinality(generate_string_outcomes(sections, TRUE, NoFail)) = 1

(* C14: spaces and tabs added around the line, inside the brackets of a
   header, around the key, around '=' and after the value do not change
   what parse_string stores: sections, keys and values are those of the
   text without them. *)
C14_WhitespaceTolerance ==
    op.name = "parse_padded" => op.ret = DMINI_OK /\ sections = parsed

(* A padded header and a padded line stored a section and a pair whose
   name, key and value have a blank inside *)
C14_Witness ==
    /\ op.name = "parse_padded"
    /\ Len(op.value) > Len(op.key) + 8
    /\ sections # pre
    /\ \E i \in 1..Len(sections) :
          /\ sections[i].name = <<"s", " ", "t">>
          /\ \E j \in 1..Len(sections[i].pairs) :
                sections[i].pairs[j] = [key |-> <<"a", " ", "b">>,
                                        value |-> <<"x", " ", "y">>]

(* C15: comment lines (';' or '#' first after blanks), empty lines and
   blank lines put before, between and after the lines of a text do not
   change what parse_string stores on a context: they create no section and
   no pair and the section current at the next line is the same. *)
C15_CommentTolerance ==
    op.name = "parse_commented" => op.ret = DMINI_OK /\ sections = parsed

(* A comment that reads as a pair and a comment that reads as a header were
   put around a line that stored a pair in the global section *)
C15_Witness ==
    /\ op.name = "parse_commented"
    /\ \E i, j \in 1..Len(op.value) :
          /\ i < j
          /\ op.value[i] = ";"
          /\ op.value[j] = "#"
          /\ \E k \in (i + 1)..(j - 1) : op.value[k] = "\n"
    /\ Len(sections[1].pairs) > Len(pre[1].pairs)
    /\ \A i \in 1..Len(sections) : sections[i].name # <<"t">>

(* C16: lines joined by '\n', by '\r', by '\r\n' or by a longer run of
   '\r' and '\n' are parsed to the same model: the run only breaks lines,
   it merges no two lines and drops no character of a line. *)
C16_LineTerminators ==
    op.name = "parse_joined" => op.ret = DMINI_OK /\ sections = parsed

(* Three lines that each stored something were joined by two runs of more
   than one terminator *)
C16_Witness ==
    /\ op.name = "parse_joined"
    /\ Len(op.value) > Len(op.key) + 2
    /\ Len(sections) > Len(pre)
    /\ PairCount(sections) = PairCount(pre) + 2

(* C17: parse_file returns the I/O error status whenever the file cannot be
   opened or the read reports fewer bytes than the size of the file, and
   hands to the string parser only a file it has read in full. *)
C17_ParseFileErrors ==
    op.name = "parse_file" =>
        /\ (io.open = "failed" \/ (io.count # -1 /\ io.count < io.size))
           => op.ret = DMINI_ERR_FILE
        /\ io.data # NULL => io.count = io.size

(* C18: generate_file returns OK only if the file was opened and the write
   reported the length of the text, the I/O error status if the open failed
   or the write was short, the memory status if no text was generated; and
   it leaves the model as it was. *)
C18_GenerateFileOutcome ==
    op.name = "generate_file" =>
        /\ sections = pre
        /\ op.key = NULL =>
              /\ op.ret = DMINI_OK
                 => io.open = "ok" /\ io.data # NULL /\ io.count = Len(io.data)
              /\ (io.open = "failed" \/ (io.open = "ok" /\ io.count # Len(io.data)))
                 => op.ret = DMINI_ERR_FILE
              /\ (op.ctx /\ op.value # NULL /\ io.data = NULL)
                 => op.ret = DMINI_ERR_MEMORY

(* The file was opened and the write of a text of two sections came back
   one byte short *)
C18_Witness ==
    /\ op.name = "generate_file"
    /\ op.ret = DMINI_ERR_FILE
    /\ io.open = "ok"
    /\ io.count = Len(io.data) - 1
    /\ Len(sections) = 2
    /\ PairCount(sections) = 2

(* C13: a call of dmini_generate_string that asks for the size materializes
   no content: it returns without leaving a block allocated and without
   giving the client a text to hold. *)
C13_SizeQuery ==
    op.name = "generate_string" /\ op.ret # Fault =>
        /\ heap.fresh = {}
        /\ \A p \in held : p.kind # "text"

(* C19: no pointer the client was given by dmini_get_string is a block the
   context owns, and none is a block the library has freed since. *)
C19_ExclusiveOwnership ==
    \A p \in held : p.kind = "value" => p.at \notin Owned(refs) /\ ~p.stale

(* The numbers of the addresses a context holds, nodes and strings *)
RefCount(r) ==
    (IF r.ctx # 0 THEN 1 ELSE 0)
    + SumOver([i \in 1..Len(r.secs) |->
                  (IF r.secs[i].name # 0 THEN 2 ELSE 1)
                  + SumOver([j \in 1..Len(r.secs[i].pairs) |->
                               Cardinality(PairBlocks(r.secs[i].pairs[j]))],
                            Len(r.secs[i].pairs))],
              Len(r.secs))

(* C20: no block is freed that is not allocated; the blocks allocated are
   those the context holds, each held once, and the texts the client was
   given and has not freed, so that after dmini_destroy only such texts
   are left and no call leaves a scratch buffer behind. *)
C20_NoLeakNoDoubleFree ==
    /\ ~heap.bad
    /\ heap.live = Owned(refs) \cup {p.at : p \in {q \in held : q.kind = "text"}}
    /\ Cardinality(Owned(refs)) = RefCount(refs)
    /\ op.name = "destroy" => Owned(refs) = {}
    /\ heap.fresh \subseteq heap.live

(* dmini_destroy of a context in which an overwrite had failed for lack of
   memory, while the client holds a text *)
C20_Witness ==
    /\ op.name = "destroy"
    /\ HasNullValue(pre)
    /\ Len(pre) = 2
    /\ \E p \in held : p.kind = "text" /\ heap.live = {p.at}

(* A pair that lacks its key string or its value string *)
PartialPair(secs) ==
    \E i \in 1..Len(secs) : \E j \in 1..Len(secs[i].pairs) :
        secs[i].pairs[j].key = NULL \/ secs[i].pairs[j].value = NULL

(* C21: a set_string, set_int or parse_string that returns the memory
   status on a context whose pairs are all whole leaves a context whose
   pairs are all whole: each still has a key string and a value string. *)
C21_NoPartialPair ==
    /\ op.name \in {"set_string", "set_int", "parse_string"}
    /\ op.ret = DMINI_ERR_MEMORY
    /\ ~PartialPair(pre)
    => ~PartialPair(sections)

(* The lines of a text as the specification reads them *)

(* str without the white space before its first and after its last other
   character *)
Stripped(str) ==
    LET keep == {i \in 1..Len(str) : ~IsSpace(str[i])} IN
    IF keep = {} THEN <<>>
    ELSE SubSeq(str, CHOOSE i \in keep : \A j \in keep : i <= j,
                     CHOOSE i \in keep : \A j \in keep : j <= i)

(* The place of the first c of line *)
FirstAt(line, c) ==
    CHOOSE i \in 1..Len(line) : line[i] = c /\ \A j \in 1..(i - 1) : line[j] # c

Ignored(line) == line = <<>> \/ line[1] \in {";", "#"}

HeaderLine(line) == ~Ignored(line) /\ line[1] = "[" /\ "]" \in Range(line)

HeaderName(line) == Stripped(SubSeq(line, 2, FirstAt(line, "]") - 1))

KeyOf(line) == Stripped(SubSeq(line, 1, FirstAt(line, "=") - 1))

ValueOf(line) == Stripped(SubSeq(line, FirstAt(line, "=") + 1, Len(line)))

PairLine(line) ==
    ~Ignored(line) /\ line[1] # "[" /\ "=" \in Range(line) /\ KeyOf(line) # <<>>

Malformed(line) ==
    /\ ~Ignored(line)
    /\ \/ line[1] = "[" /\ "]" \notin Range(line)
       \/ line[1] # "[" /\ "=" \notin Range(line)
       \/ line[1] # "[" /\ "=" \in Range(line) /\ KeyOf(line) = <<>>

(* The sections of secs that bear the name *)
Named(secs, name) == {i \in 1..Len(secs) : secs[i].name = name}

(* C22: the current section is the global section at the first line, is
   the same at the start of a line as at the end of the line before, and
   changes only at a well-formed header: to the first section of that name
   when there is one, the section list staying as it is, and else to a
   section appended at the end. A key=value line changes the pairs of the
   current section alone: it overwrites the value of its key there or
   appends the pair after the others. What the call leaves is what its last
   line left. *)
C22_CurrentSection ==
    op.name = "parse_string" =>
        LET steps == trace.steps IN
        /\ steps # <<>> =>
              /\ steps[1].from.cur = 1
              /\ steps[1].from.sections = pre
              /\ pre[1].name = NULL
              /\ sections = steps[Len(steps)].to.sections
        /\ \A k \in 1..Len(steps) :
              LET from == steps[k].from
                  to == steps[k].to
                  line == Stripped(steps[k].raw)
              IN  /\ k > 1 => from.cur = steps[k - 1].to.cur
                             /\ from.sections = steps[k - 1].to.sections
                  /\ to.ret = DMINI_OK =>
                        /\ IF HeaderLine(line)
                           THEN IF Named(from.sections, HeaderName(line)) # {}
                                THEN /\ to.cur \in Named(from.sections, HeaderName(line))
                                     /\ \A i \in Named(from.sections, HeaderName(line)) :
                                            to.cur <= i
                                     /\ to.sections = from.sections
                                ELSE /\ to.cur = Len(from.sections) + 1
                                     /\ Len(to.sections) = Len(from.sections) + 1
                                     /\ SubSeq(to.sections, 1, Len(from.sections))
                                        = from.sections
                                     /\ to.sections[to.cur].pairs = <<>>
                           ELSE to.cur = from.cur
                        /\ PairLine(line) =>
                              LET old == from.sections[from.cur].pairs
                                  new == to.sections[from.cur].pairs
                                  pair == [key |-> KeyOf(line), value |-> ValueOf(line)]
                              IN  /\ \A i \in 1..Len(from.sections) :
                                        i # from.cur => to.sections[i] = from.sections[i]
                                  /\ Len(to.sections) = Len(from.sections)
                                  /\ to.sections[from.cur].name
                                     = from.sections[from.cur].name
                                  /\ IF \E j \in 1..Len(old) : old[j].key = pair.key
                                     THEN /\ Len(new) = Len(old)
                                          /\ \E j \in 1..Len(old) :
                                                /\ old[j].key = pair.key
                                                /\ new = [old EXCEPT ![j] = pair]
                                     ELSE new = Append(old, pair)

(* A text whose header reopened the section s, which an earlier call had
   made and filled, and stored a second key after the first *)
C22_Witness ==
    /\ op.name = "parse_string"
    /\ op.ret = DMINI_OK
    /\ Len(pre) = 2
    /\ Len(pre[2].pairs) = 1
    /\ Len(sections) = 2
    /\ Len(sections[2].pairs) = 2
    /\ \E k \in 1..Len(trace.steps) :
          /\ HeaderLine(trace.steps[k].raw)
          /\ trace.steps[k].to.cur = 2
          /\ trace.steps[k].from.cur = 1

(* C23: a line with '[' and no ']', a line without '=' and a line whose key
   is empty leave the sections and the current section as they were and
   the status OK, and the loop goes on with the text after the line. *)
C23_MalformedSkipped ==
    op.name = "parse_string" =>
        \A k \in 1..Len(trace.steps) :
            Malformed(Stripped(trace.steps[k].raw)) =>
                /\ trace.steps[k].to.sections = trace.steps[k].from.sections
                /\ trace.steps[k].to.cur = trace.steps[k].from.cur
                /\ trace.steps[k].to.ret = DMINI_OK
                /\ trace.steps[k].next # <<>> =>
                      /\ k < Len(trace.steps)
                      /\ trace.steps[k + 1].rest = trace.steps[k].next

(* A text with a broken header that holds '=', then a key line that was
   stored in the section that was current before it *)
C23_Witness ==
    /\ op.name = "parse_string"
    /\ op.ret = DMINI_OK
    /\ Len(trace.steps) = 3
    /\ trace.steps[1].to.cur = 2
    /\ trace.steps[2].raw = <<"[", "s", "=", "x">>
    /\ PairLine(trace.steps[3].raw)
    /\ Len(sections[2].pairs) = 1

(* An allocation the call attempted failed *)
AllocationFailed(t) == \E n \in 1..t.n : ~Dmod_Malloc(n, t.fail)

(* C24: every iteration of the loop consumes a character of the text and
   the loop ends with the text or with an error; the status is OK when the
   context and the text are given and no allocation fails, the invalid
   status only for a NULL context or text and the memory status only when
   an allocation failed. *)
C24_ParseTotal ==
    op.name = "parse_string" =>
        LET steps == trace.steps IN
        /\ \A k \in 1..Len(steps) :
              /\ Len(steps[k].next) < Len(steps[k].rest)
              /\ k < Len(steps) => steps[k + 1].rest = steps[k].next
        /\ steps # <<>> =>
              /\ steps[1].rest = op.value
              /\ steps[Len(steps)].next = <<>> \/ op.ret # DMINI_OK
        /\ op.ret \in {DMINI_OK, DMINI_ERR_INVALID, DMINI_ERR_MEMORY}
        /\ op.ret = DMINI_ERR_INVALID <=> (~op.ctx \/ op.value = NULL)
        /\ op.ret = DMINI_ERR_MEMORY => AllocationFailed(trace)
        /\ (op.ctx /\ op.value # NULL /\ ~AllocationFailed(trace)) => op.ret = DMINI_OK

(* A text of three lines, malformed and well-formed, parsed to its end
   without a failed allocation *)
C24_Witness ==
    /\ op.name = "parse_string"
    /\ op.ret = DMINI_OK
    /\ ~AllocationFailed(trace)
    /\ Len(trace.steps) = 3
    /\ \E k \in 1..3 : Malformed(trace.steps[k].raw)
    /\ sections # pre

(* C25: the text a dmini_generate_string returns has the length the sizing
   pass computed for the strings the call read, so that the writing pass
   and the terminating NUL fill the buffer_size + 1 bytes allocated and
   nothing is written past them. *)
C25_ExactSize ==
    (op.name = "generate_string" /\ op.ret # NULL /\ op.ret # Fault) =>
        \E g \in AtNull :
            /\ op.ret = dmini_generate_string(ReadNullAs(sections, g), TRUE, NoFail)
            /\ Len(op.ret) = buffer_size(ReadNullAs(sections, g))

(* A text of the global section and two named sections, the last of them
   with a pair *)
C25_Witness ==
    /\ op.name = "generate_string"
    /\ op.ret # NULL
    /\ op.ret # Fault
    /\ Len(sections) = 3
    /\ sections[2].name # NULL
    /\ sections[3].name # NULL
    /\ Len(sections[3].pairs) >= 1
    /\ ~HasNullValue(sections)

(* The keys of a pair list, in list order *)
KeyOrder(pairs) == [j \in 1..Len(pairs) |-> pairs[j].key]

IsPrefix(s, t) == Len(s) <= Len(t) /\ SubSeq(t, 1, Len(s)) = s

(* The section names and the keys of a context in list order: a mark
   <<name>> for a section, then a mark <<name, key>> for each of its
   pairs *)
RECURSIVE Marks(_)
Marks(secs) ==
    IF secs = <<>> THEN <<>>
    ELSE << <<Head(secs).name>> >>
         \o [j \in 1..Len(Head(secs).pairs) |->
                <<Head(secs).name, Head(secs).pairs[j].key>>]
         \o Marks(Tail(secs))

(* a is b without some of its elements *)
RECURSIVE IsSubseq(_, _)
IsSubseq(a, b) ==
    IF a = <<>> THEN TRUE
    ELSE IF b = <<>> THEN FALSE
    ELSE IF Head(a) = Head(b) THEN IsSubseq(Tail(a), Tail(b))
    ELSE IsSubseq(a, Tail(b))

(* What a text shows of the order: a mark <<"[", name>> for a header line
   and a mark <<"=", key>> for a key=value line *)
RECURSIVE TextMarks(_)
TextMarks(text) ==
    IF text = <<>> THEN <<>>
    ELSE LET eol == Scan(text, 1, {"\n"})
             line == SubSeq(text, 1, eol - 1)
         IN  (IF line = <<>> THEN <<>>
              ELSE IF line[1] = "["
              THEN << <<"[", SubSeq(line, 2, Len(line) - 1)>> >>
              ELSE << <<"=", SubSeq(line, 1, FirstAt(line, "=") - 1)>> >>)
             \o TextMarks(SubSeq(text, eol + 1, Len(text)))

(* What the text of a context is to show: its named sections and its keys *)
RECURSIVE ShownMarks(_)
ShownMarks(secs) ==
    IF secs = <<>> THEN <<>>
    ELSE (IF Head(secs).name # NULL THEN << <<"[", Head(secs).name>> >> ELSE <<>>)
         \o [j \in 1..Len(Head(secs).pairs) |-> <<"=", Head(secs).pairs[j].key>>]
         \o ShownMarks(Tail(secs))

(* C26: set_string, set_int and parse_string leave every section at its
   place with its keys in their order, and put a section that was not
   there behind the last section and a key that was not there behind the
   last key of its section; remove_key and remove_section leave what they
   do not remove in the order it had; the text of generate_string shows
   the named sections and the keys in the order of the lists. *)
C26_InsertionOrder ==
    /\ op.name \in {"set_string", "set_int", "parse_string"} =>
          /\ Len(pre) <= Len(sections)
          /\ \A i \in 1..Len(pre) :
                /\ sections[i].name = pre[i].name
                /\ IsPrefix(KeyOrder(pre[i].pairs), KeyOrder(sections[i].pairs))
    /\ op.name \in {"remove_key", "remove_section"} =>
          IsSubseq(Marks(sections), Marks(pre))
    /\ (op.name = "generate_string" /\ op.ret # NULL /\ op.ret # Fault) =>
          TextMarks(op.ret) = ShownMarks(sections)

(* set_string put the section s behind the section t, in a context from
   which a section had been removed or to which t had come first *)
C26_Witness ==
    /\ op.name = "set_string"
    /\ op.ret = DMINI_OK
    /\ op.section = <<"s">>
    /\ Len(pre) = 2
    /\ pre[2].name = <<"t">>
    /\ Len(pre[2].pairs) = 1
    /\ Len(sections) = 3
    /\ sections[3].name = <<"s">>

(* The functions that read the context *)
Readers == {"get_string", "get_int", "has_section", "has_key",
            "generate_string", "generate_file"}

(* C27: get_string, get_int, has_section, has_key, generate_string and
   generate_file leave the sections, their keys, their values and the order
   of both as they were, whatever they return and also when they stop; a
   section or a key that was asked for and did not exist does not exist
   afterwards either. *)
C27_ReadOnly ==
    op.name \in Readers =>
        /\ sections = pre
        /\ (op.ctx /\ op.name \in {"get_string", "get_int", "has_section", "has_key"}
            /\ dmini_has_section(pre, TRUE, op.section) = 0)
           => dmini_has_section(sections, TRUE, op.section) = 0
        /\ (op.ctx /\ op.key # NULL /\ op.name \in {"get_string", "get_int", "has_key"}
            /\ dmini_has_key(pre, TRUE, op.section, op.key) = 0)
           => dmini_has_key(sections, TRUE, op.section, op.key) = 0

(* A key is asked for in a section that does not exist, in a context that
   holds a pair elsewhere *)
C27_Witness ==
    /\ op.name = "get_string" /\ op.ctx /\ op.section = <<"t">> /\ op.key = <<"a">>
    /\ op.ret = op.value
    /\ PairCount(pre) >= 1
    /\ dmini_has_section(pre, TRUE, <<"t">>) = 0
    /\ sections = pre

(* C28: when dmini_parse_file or dmini_generate_file has returned, the
   file it opened has been closed by one call of Dmod_FileClose, whatever
   the result (the buffer was not allocated, the read or the write was
   short, the parse failed, all went well), and no close was called when
   no file was opened. *)
C28_HandlesClosed ==
    (op.name \in {"parse_file", "generate_file"} /\ op.key # <<"fault">>) =>
        io.closes = IF io.open = "ok" THEN 1 ELSE 0

(* dmini_parse_file opened the file and returned because the buffer was
   not allocated *)
C28_Witness ==
    /\ op.name = "parse_file"
    /\ op.ret = DMINI_ERR_MEMORY
    /\ io.open = "ok"
    /\ io.count = -1
    /\ io.closes = 1

(* The names of the named sections of a context *)
Names(secs) == {secs[i].name : i \in 1..Len(secs)} \ {NULL}

(* C29: a named section stays in the context through every call but a
   remove_section of its name; after remove_key has removed the last pair
   of a section the section is there with no pair and has_section is 1 for
   it; the text of generate_string holds the header of every named
   section, of those without a pair too. *)
C29_EmptySectionsPersist ==
    /\ \A name \in Names(pre) :
          (op.name = "remove_section" => op.section # name)
          => dmini_has_section(sections, TRUE, name) = 1
    /\ (op.name = "remove_key" /\ op.ret = DMINI_OK) =>
          \A i \in SectionNamed(pre, op.section) :
              Len(pre[i].pairs) = 1 =>
                  /\ dmini_has_section(sections, TRUE, op.section) = 1
                  /\ \A j \in SectionNamed(sections, op.section) :
                        sections[j].pairs = <<>>
    /\ (op.name = "generate_string" /\ op.ret # NULL /\ op.ret # Fault) =>
          \A name \in Names(sections) : <<"[", name>> \in Range(TextMarks(op.ret))

(* remove_key has removed the one pair of section s *)
C29_Witness ==
    /\ op.name = "remove_key" /\ op.ret = DMINI_OK /\ op.section = <<"s">>
    /\ \E i \in SectionNamed(pre, <<"s">>) : Len(pre[i].pairs) = 1
    /\ \E j \in SectionNamed(sections, <<"s">>) : sections[j].pairs = <<>>
    /\ dmini_has_section(sections, TRUE, <<"s">>) = 1

====
